---------------------------- MODULE Spec2Model ----------------------------
(***************************************************************************)
(* A model of the ouro agent harness: the context manager and observation  *)
(* masking (src/agent/context_manager.rs), the session turn loop and       *)
(* carryover extraction (src/agent/agent_loop.rs), the outer restart loop  *)
(* (src/main.rs) and the sub-agent registry with its spawner tasks         *)
(* (src/orchestration/*.rs, src/agent/tools.rs).                           *)
(*                                                                         *)
(* Strings are modelled as sequences of word tokens: the code inspects     *)
(* tool output only through starts_with('[') and contains("masked"), so a  *)
(* token "[" in first position and a token "masked" anywhere carry what    *)
(* the code reads.  Lengths are counted in tokens of CharsPerToken chars.  *)
(***************************************************************************)
EXTENDS Integers, Sequences, FiniteSets, TLC

VARIABLES
    cm,          \* the session's ContextManager (counters and wind_down_sent)
    evalLog,     \* observer: what evaluate() calls have returned so far
    messages,    \* chat_req.messages of the running session
    maskLog,     \* observer: the last masking round
    issued,      \* how many call-ids the provider has assigned
    pc,          \* where run_agent_session (or the outer loop) stands
    turn,        \* run_agent_session's turn counter
    budget,      \* turns the model still lets the provider answer
    pending,     \* captured_tool_calls not yet dispatched in this turn
    session,     \* session_number, carryover_turns, the index of the last
                 \* message the session started with, and the shutdown reason
    carryover,   \* the carryover_messages the last session returned
    shutdown,    \* the shared shutdown flag
    entries,     \* SubAgentManager.entries, indexed by sub-agent id
    tasks,       \* the task each spawner started for its entry
    tokParent,   \* the CancellationToken tree: each token's parent
    cancelled,   \* the tokens that are cancelled
    spawning,    \* spawn calls between create_child_token and register
    regLog,      \* observer: what the last register call saw and returned
    cancelCalls, \* observer: the ids cancel_agent was called with
    sd,          \* where shutdown_all stands
    spawnsLeft,  \* the spawn calls the model still lets callers make
    handles,     \* the ids whose entry holds a join handle, and those for
                 \* which set_join_handle has been called
    joining,     \* the join handles shutdown_all took and still awaits
    child,       \* an LLM sub-agent: its token, its task and what the task
                 \* found of its session when it ended
    sh,          \* the execute_shell call in progress and its child process
    secLog,      \* the lines of the security log
    execLog,     \* observer: the SafetyLayer::execute calls and their results
    fs,          \* the filesystem: what each path names
    fsLog,       \* observer: the last file_write and is_write_allowed calls
    usageLog,    \* observer: the update_token_usage calls of the session
    toolLog,     \* observer: the last call of a tool function and its result
    pause,       \* run_agent_session's pause_flag: whether the caller passed
                 \* one, and the flag's value
    loopLog,     \* observer: the turn whose evaluation appended the wind-down
                 \* message, and whether the last turn returned a sleep marker
                 \* that no wake condition has answered
    stdio,       \* the stdin_handle of each background-process entry, the
                 \* holder of the entries lock and the write_to_stdin calls
    outbuf,      \* the output ring buffer of one background process, its two
                 \* reader tasks and the last read_output call
    limiter      \* the last-request timestamps of the search providers, the
                 \* clock and the tasks inside the rate-limited wrappers

ctxVars  == <<cm, evalLog>>
histVars == <<messages, maskLog, issued>>
sessVars == <<pc, turn, budget, pending, session, carryover, shutdown>>
regVars  == <<entries, tasks, tokParent, cancelled, spawning, regLog,
              cancelCalls, sd, spawnsLeft>>
joinVars == <<handles, joining>>
execVars == <<sh, secLog, execLog>>
fsVars   == <<fs, fsLog>>
loopVars == <<pause, loopLog>>
ioVars   == <<outbuf, limiter>>
auxVars  == <<toolLog, loopVars, stdio, ioVars>>
sessExt  == <<joinVars, child, execVars, fsVars, usageLog, toolLog, stdio,
              ioVars>>
extVars  == <<joinVars, child, execVars, fsVars, usageLog, auxVars>>
vars     == <<cm, evalLog, messages, maskLog, issued,
              pc, turn, budget, pending, session, carryover, shutdown,
              entries, tasks, tokParent, cancelled, spawning, regLog,
              cancelCalls, sd, spawnsLeft,
              handles, joining, child, sh, secLog, execLog, fs, fsLog, usageLog,
              toolLog, pause, loopLog, stdio, outbuf, limiter>>

---------------------------------------------------------------------------
(* Bounds of the model and constants of the program.                       *)

\* context_limit handed to ContextManager::new, scaled down.
ContextLimit == 10
\* soft_threshold_pct and hard_threshold_pct, as percentages.
SoftPct == 70
HardPct == 90
\* the heuristic 1 token ~ 4 chars of usage_percentage.
CharsPerToken == 4
\* DEFAULT_MASK_BATCH_SIZE
DEFAULT_MASK_BATCH_SIZE == 3
\* caps on the counters a free-standing ContextManager may reach.
MaxCompletion == 2
MaxChars == 40
MaxTurnCount == 2
\* the longest history the masking specification builds, and the most tool
\* invocations one assistant message carries.
MaskMaxLen == 4
MaxCalls == 2
\* the turns the provider answers over all sessions of a run, max_restarts,
\* and the largest carryover_turns configured.
MaxTurns == 3
\* the turns the provider answers in a run of the dashboard.
PauseTurns == 2
MaxSessions == 2
MaxCarryoverTurns == 2

MASKED_MARKER == "masked"

---------------------------------------------------------------------------
(* ContextManager                                                          *)

\* ContextManager::new: all counters zero, wind_down_sent false.
NewContextManager ==
    [ prompt_tokens           |-> 0,
      completion_tokens_total |-> 0,
      total_chars             |-> 0,
      masked_count            |-> 0,
      turn_count              |-> 0,
      wind_down_sent          |-> FALSE ]

update_token_usage_Accumulates(c, prompt, completion) ==
    [c EXCEPT !.prompt_tokens = @ + prompt,
              !.completion_tokens_total = @ + completion]

\* prompt_tokens is set, completion tokens are added.
update_token_usage(c, prompt, completion) ==
    [c EXCEPT !.prompt_tokens = prompt,
              !.completion_tokens_total = @ + completion]

add_chars(c, chars) == [c EXCEPT !.total_chars = @ + chars]

increment_turn(c) == [c EXCEPT !.turn_count = @ + 1]

\* prepare_restart: every per-session counter and the wind-down flag are
\* reset.  (session_number, which it increments, is a field nothing in the
\* manager reads; the sessions' number is the outer loop's.)
prepare_restart(c) ==
    [c EXCEPT !.prompt_tokens = 0,
              !.completion_tokens_total = 0,
              !.total_chars = 0,
              !.turn_count = 0,
              !.masked_count = 0,
              !.wind_down_sent = FALSE]

\* The token count usage_percentage divides by context_limit: the reported
\* prompt tokens when there are any, else total_chars / 4 (integer division).
usage_tokens(c) ==
    IF c.prompt_tokens > 0 THEN c.prompt_tokens
                           ELSE c.total_chars \div CharsPerToken

\* usage_percentage() >= pct/100, on integers.
usage_at_least(c, pct) == usage_tokens(c) * 100 >= pct * ContextLimit

evaluate_action_SoftFirst(c) ==
    IF usage_at_least(c, SoftPct) THEN "Mask"
    ELSE IF usage_at_least(c, HardPct)
      THEN IF c.wind_down_sent THEN "Restart" ELSE "WindDown"
      ELSE "Continue"

evaluate_action_RestartAtOnce(c) ==
    IF usage_at_least(c, HardPct) THEN "Restart"
    ELSE IF usage_at_least(c, SoftPct) THEN "Mask" ELSE "Continue"

\* The value evaluate() returns.
evaluate_action(c) ==
    IF usage_at_least(c, HardPct)
      THEN IF c.wind_down_sent THEN "Restart" ELSE "WindDown"
      ELSE IF usage_at_least(c, SoftPct) THEN "Mask" ELSE "Continue"

\* The count of the Mask action evaluate() returns (0: another action).
evaluate_count(c) ==
    IF evaluate_action(c) = "Mask" THEN DEFAULT_MASK_BATCH_SIZE ELSE 0

evaluate_state_NoFlag(c) == c

\* The state evaluate() leaves: the first hard-threshold hit sets the flag.
evaluate_state(c) ==
    IF usage_at_least(c, HardPct) /\ ~c.wind_down_sent
      THEN [c EXCEPT !.wind_down_sent = TRUE]
      ELSE c

\* The observer's record of one more evaluate() call on c.
LogEvaluate(log, c) ==
    [ windDowns   |-> log.windDowns
                        + (IF evaluate_action(c) = "WindDown" THEN 1 ELSE 0),
      calls       |-> IF log.calls < 3 THEN log.calls + 1 ELSE log.calls,
      last        |-> evaluate_action(c),
      count       |-> evaluate_count(c),
      lastAtHard  |-> usage_at_least(c, HardPct),
      lastAfterWD |-> log.windDowns > 0 ]

NewEvalLog ==
    [ windDowns |-> 0, calls |-> 0, last |-> "none", count |-> 0,
      lastAtHard |-> FALSE, lastAfterWD |-> FALSE ]

---------------------------------------------------------------------------
(* Chat messages.  A message is a record: role, the tool invocations an    *)
(* assistant message carries (calls), the call-id of a tool-response, and  *)
(* the text (content).  A Tool-role message that holds no ToolResponse     *)
(* part reads as call_id "" in mask_oldest_observations, as a response     *)
(* whose call-id is the empty string does.                                 *)

NoCalls == <<>>

SystemMsg(text)        == [role |-> "system", calls |-> NoCalls, call_id |-> "", content |-> text]
AssistantText(text)    == [role |-> "assistant", calls |-> NoCalls, call_id |-> "", content |-> text]
AssistantCalls(calls)  == [role |-> "assistant", calls |-> calls, call_id |-> "", content |-> <<>>]
ToolResponseMsg(id, text) == [role |-> "tool", calls |-> NoCalls, call_id |-> id, content |-> text]
ToolCall(id, fn)       == [call_id |-> id, fn_name |-> fn]

IsTool(m)           == m.role = "tool"
IsInvoking(m)       == m.role = "assistant" /\ Len(m.calls) > 0
IsTextAssistant(m)  == m.role = "assistant" /\ Len(m.calls) = 0
CallIdsOf(m)        == {m.calls[k].call_id : k \in 1..Len(m.calls)}

---------------------------------------------------------------------------
(* Observation masking                                                     *)

is_already_masked_StartsWithMarker(content) ==
    Len(content) > 0 /\ content[1] = MASKED_MARKER

\* content.starts_with('[') && content.contains(MASKED_MARKER)
is_already_masked(content) ==
    /\ Len(content) > 0
    /\ content[1] = "["
    /\ \E i \in 1..Len(content) : content[i] = MASKED_MARKER

\* Every arm of generate_placeholder formats "[<fn> result masked -- ...]";
\* file_read adds the line count and the first line of the original, the
\* others a size read off the original.
generate_placeholder(fn_name, original) ==
    IF fn_name = "file_read"
      THEN <<"[", fn_name, "result", MASKED_MARKER, ToString(Len(original))>>
              \o (IF Len(original) > 0 THEN <<original[1]>> ELSE <<>>)
      ELSE <<"[", fn_name, "result", MASKED_MARKER, ToString(Len(original))>>

\* The assistant message nearest before tool_msg_idx (0 when there is none):
\* find_fn_name_for_call_id looks at no other.
PrecedingAssistant(msgs, tool_msg_idx) ==
    LET A == {j \in 1..(tool_msg_idx - 1) : msgs[j].role = "assistant"}
    IN  IF A = {} THEN 0 ELSE CHOOSE j \in A : \A k \in A : k <= j

find_fn_name_for_call_id(msgs, tool_msg_idx, call_id) ==
    LET a == PrecedingAssistant(msgs, tool_msg_idx)
    IN  IF a = 0 THEN "unknown"
        ELSE LET hits == {k \in 1..Len(msgs[a].calls) : msgs[a].calls[k].call_id = call_id}
             IN  IF hits = {} THEN "unknown"
                 ELSE msgs[a].calls[CHOOSE k \in hits : \A h \in hits : k <= h].fn_name

\* First pass: the Tool-role messages that are not yet masked.
tool_msg_indices(msgs) ==
    {i \in 1..Len(msgs) : IsTool(msgs[i]) /\ ~is_already_masked(msgs[i].content)}

indices_to_mask_Newest(msgs, count) ==
    LET U == tool_msg_indices(msgs)
    IN  {i \in U : Cardinality({j \in U : j > i}) < count}

\* The loop stops once `count` were replaced: the `count` oldest are taken.
indices_to_mask(msgs, count) ==
    LET U == tool_msg_indices(msgs)
    IN  {i \in U : Cardinality({j \in U : j < i}) < count}

\* An empty call-id is replaced by the literal "masked".
effective_call_id(call_id) ==
    IF call_id = "" THEN "masked" ELSE call_id

\* The message written in place of messages[msg_idx].
masked_message(msgs, msg_idx) ==
    LET id == msgs[msg_idx].call_id
        fn == IF id # "" THEN find_fn_name_for_call_id(msgs, msg_idx, id)
                         ELSE "unknown"
    IN  ToolResponseMsg(effective_call_id(id),
                        generate_placeholder(fn, msgs[msg_idx].content))

\* messages after mask_oldest_observations(messages, count, _).
mask_messages(msgs, count) ==
    [i \in 1..Len(msgs) |->
        IF i \in indices_to_mask(msgs, count) THEN masked_message(msgs, i)
                                              ELSE msgs[i]]

\* MaskResult.masked_count of the round.
masked_this_round(msgs, count) == Cardinality(indices_to_mask(msgs, count))

mask_context_ReclaimsChars(c, msgs, count) ==
    [c EXCEPT !.masked_count = @ + masked_this_round(msgs, count),
              !.total_chars =
                  IF @ >= CharsPerToken * masked_this_round(msgs, count)
                    THEN @ - CharsPerToken * masked_this_round(msgs, count)
                    ELSE 0]

\* context_manager.masked_count += 1 for every replacement.
mask_context(c, msgs, count) ==
    [c EXCEPT !.masked_count = @ + masked_this_round(msgs, count)]

\* The observer's record of a round: the history before and after, what the
\* round returned, and how often each message has been replaced so far.
LogMask(log, msgs, count) ==
    [ rounds      |-> IF log.rounds < 2 THEN log.rounds + 1 ELSE log.rounds,
      before      |-> msgs,
      after       |-> mask_messages(msgs, count),
      count       |-> count,
      masked_now  |-> masked_this_round(msgs, count),
      times       |-> [i \in 1..Len(msgs) |->
                          (IF i \in DOMAIN log.times THEN log.times[i] ELSE 0)
                          + (IF i \in indices_to_mask(msgs, count) THEN 1 ELSE 0)] ]

NewMaskLog ==
    [ rounds |-> 0, before |-> <<>>, after |-> <<>>, count |-> 0,
      masked_now |-> 0, times |-> <<>> ]

---------------------------------------------------------------------------
(* SubAgentManager: entries, cancellation tokens, register                 *)

\* Option::None for a parent_id, and an id that was never registered.
NoId == 0
UnknownId == -1

\* root_cancel_token
RootToken == 0

\* SubAgentManager::new(root, event_tx, max_depth, max_total)
max_depth == 1
max_total == 3
\* the spawn calls made on one manager (each takes a token from
\* create_child_token): where the tree and the limits are examined, and
\* where the tasks' life cycle is.
MaxSpawns == 4
LifeSpawns == 2
\* the spawn calls that may stand between create_child_token and register
\* at one time.
MaxInFlight == 2
\* the distinct sub-agents kill_agent is called for.
MaxKills == 1

\* Whether token a is token t or one of the tokens t descends from.
RECURSIVE TokenUnder(_, _, _)
TokenUnder(tp, t, a) ==
    IF t = a THEN TRUE
    ELSE IF t = RootToken THEN FALSE
    ELSE TokenUnder(tp, tp[t], a)

\* CancellationToken::cancel: the token and every token below it.
cancel(tp, c, t) ==
    c \cup {t} \cup {u \in 1..Len(tp) : TokenUnder(tp, u, t)}

create_child_token_AlwaysRoot(es, parent_id) == RootToken

\* The token whose child_token() create_child_token returns: the parent
\* entry's when parent_id is Some and found, the root token otherwise.
create_child_token(es, parent_id) ==
    IF parent_id \in 1..Len(es) THEN es[parent_id].cancel_token ELSE RootToken

register_depth_Flat(es, parent_id) == 0

\* The depth register computes from the parent entry.
register_depth(es, parent_id) ==
    IF parent_id = NoId THEN 0
    ELSE IF parent_id \in 1..Len(es) THEN es[parent_id].depth + 1
    ELSE 0

register_check_NoLimits(es, parent_id) ==
    IF parent_id # NoId /\ parent_id \notin 1..Len(es) THEN "parent_not_found"
    ELSE "ok"

\* register's checks for an id that is not registered, in the order of
\* the code.
register_check(es, parent_id) ==
    IF Len(es) >= max_total THEN "max_total"
    ELSE IF parent_id # NoId /\ parent_id \notin 1..Len(es) THEN "parent_not_found"
    ELSE IF register_depth(es, parent_id) > max_depth THEN "max_depth"
    ELSE "ok"

\* The SubAgentEntry register inserts.  The kind, the join handle, the stdin
\* handle and the output buffer are left out: the manager treats an LLM
\* session and a background process alike, and no status, result or token
\* depends on the handles.  spawned_by is the observer's note of
\* the sub-agent whose session issued the spawn tool call (NoId otherwise).
NewEntry(es, parent_id, token, caller) ==
    [ parent_id    |-> parent_id,
      depth        |-> register_depth(es, parent_id),
      status       |-> "Running",
      completed_at |-> FALSE,
      result       |-> "none",
      cancel_token |-> token,
      spawned_by   |-> caller ]

\* total_count: the number of registered entries.
total_count(es) == Len(es)

register_result_CountsRunning(es, id, parent_id) ==
    IF Cardinality({i \in 1..Len(es) : es[i].status = "Running"}) >= max_total
      THEN "max_total"
    ELSE IF id \in 1..Len(es) THEN "duplicate"
    ELSE register_check(es, parent_id)

\* What register returns for the id it is called with: the total-count check
\* comes first, the duplicate-id check second, then the parent and the depth.
register_result(es, id, parent_id) ==
    IF total_count(es) >= max_total THEN "max_total"
    ELSE IF id \in 1..Len(es) THEN "duplicate"
    ELSE register_check(es, parent_id)

register_InsertBeforeDepth(es, id, parent_id, token, caller) ==
    IF register_result(es, id, parent_id) \in {"ok", "max_depth"}
      THEN Append(es, NewEntry(es, parent_id, token, caller))
      ELSE es

register_ReplaceDuplicate(es, id, parent_id, token, caller) ==
    CASE register_result(es, id, parent_id) = "ok" ->
             Append(es, NewEntry(es, parent_id, token, caller))
      [] register_result(es, id, parent_id) = "duplicate" ->
             [es EXCEPT ![id] = NewEntry(es, parent_id, token, caller)]
      [] OTHER -> es

\* The entries after register: the new entry is inserted after the last
\* check, every early return leaves the map as it was.
register(es, id, parent_id, token, caller) ==
    IF register_result(es, id, parent_id) = "ok"
      THEN Append(es, NewEntry(es, parent_id, token, caller))
      ELSE es

\* The task a spawner starts right after register: it waits in its select!.
\* (A spawner that fails after register, because the process does not start
\* or the log directory cannot be named, leaves the entry with no task: for
\* the registry that is a task that never leaves its select!.)
\* `cancel_seen` is whether the entry's token was cancelled when the task
\* left its select!.
NewTask == [pc |-> "select", outcome |-> "none", cancel_seen |-> FALSE]

NewRegLog == [error |-> "none", len_before |-> 0, depth |-> 0]

RegIdle ==
    /\ entries = <<>> /\ tasks = <<>>
    /\ tokParent = <<>> /\ cancelled = {}
    /\ spawning = {} /\ regLog = NewRegLog
    /\ cancelCalls = {} /\ sd = "idle"
    /\ spawnsLeft = 0

---------------------------------------------------------------------------
(* The state of the parts that take no part in a specification: every      *)
(* specification below starts the parts it does not drive in these states  *)
(* and leaves them there.                                                  *)

\* No join handle stored, set_join_handle never called.
NoHandles == [held |-> {}, stored |-> {}, before |-> {}]

JoinIdle == handles = NoHandles /\ joining = {}

\* No LLM sub-agent spawned.
NoChild == [task |-> "none", token_cancelled |-> FALSE, outcome |-> "none",
            left_at |-> "none", unanswered |-> 0, shell_running |-> FALSE]

ChildIdle == child = NoChild

\* Option::None for an exit code.
NoExitCode == -1

\* No ExecResult: the value of a call that has not returned, and (kind
\* "err") the Err an execute call returns.
NoResult ==
    [kind |-> "none", stdout |-> <<>>, stderr |-> <<>>,
     exit_code |-> NoExitCode, timed_out |-> FALSE]

\* No execute_shell call made, the security log empty.
NoShell == [pc |-> "idle", command |-> <<>>, status |-> "none", code |-> 0,
            events |-> <<>>]

NewExecLog ==
    [calls |-> 0, command |-> <<>>, spawned |-> FALSE, returned |-> FALSE,
     result |-> NoResult, log_before |-> <<>>, log_io |-> "none",
     events |-> <<>>]

ExecIdle == sh = NoShell /\ secLog = <<>> /\ execLog = NewExecLog

\* No filesystem, no file_write.
NoFs == <<>>

NewFsLog ==
    [op |-> "none", path |-> <<>>, result |-> "none",
     landed |-> <<>>, outside_changed |-> FALSE, writes |-> 0]

FsIdle == fs = NoFs /\ fsLog = NewFsLog

\* No update_token_usage call observed.
NewUsageLog == [calls |-> 0, last_prompt |-> 0, prompt_fell |-> FALSE,
                completion_sum |-> 0]

\* The observer's record of one more update_token_usage(p, c) call.
LogUsage(log, p, c) ==
    [ calls          |-> IF log.calls < 2 THEN log.calls + 1 ELSE log.calls,
      last_prompt    |-> p,
      prompt_fell    |-> p > 0 /\ p < log.last_prompt,
      completion_sum |-> log.completion_sum + c ]

UsageIdle == usageLog = NewUsageLog

\* No tool function called yet.
NoToolLog ==
    [op |-> "none", call |-> <<>>, manager |-> FALSE, max_sleep |-> 0,
     result |-> <<>>]

\* No pause flag passed (pause_flag: None), nothing observed of the loop.
NoPause == [some |-> FALSE, flag |-> FALSE]
NewLoopLog == [wind_down_turn |-> 0, sleep_requested |-> FALSE]

LoopIdle == pause = NoPause /\ loopLog = NewLoopLog

\* the background-process entries of the stdin specification, the writers
\* that call write_to_stdin side by side, and the calls they make in all.
StdinEntries == 2
StdinWriters == 2
MaxStdinWrites == 3

StdinIds == 1..StdinEntries
Writers  == 1..StdinWriters

\* The entries lock is free.
NoHolder == 0

\* write_all may hand a call's data to the pipe in several pieces: `sent`
\* says that the call has written a piece, `tail` that the last piece in
\* the entry's pipe is one of this call's.
NoWrite == [pc |-> "idle", id |-> 0, result |-> "none", sent |-> FALSE,
            tail |-> FALSE]

\* Entries as register inserts them (stdin_handle: None), nobody holding
\* the lock, no write_to_stdin call made.
NoStdio ==
    [ handle     |-> [i \in StdinIds |-> "none"],
      lock       |-> NoHolder,
      w          |-> [k \in Writers |-> NoWrite],
      calls      |-> 0,
      overlapped |-> FALSE,
      mixed      |-> FALSE ]

StdioIdle == stdio = NoStdio

\* The capacity of a background process's output buffer, in lines.
OUTPUT_BUFFER_CAPACITY == 1000

\* The lines that arrive in one run of the output buffer's model.
MaxLines == 4

Sources == {"stdout", "stderr"}

\* A line of the buffer: the pipe it came from (the stderr reader prefixes
\* its lines with "[stderr] ") and its number in the order of arrival.
Line(src, n) == [src |-> src, n |-> n]

NoRead == [some |-> FALSE, tail_lines |-> 0, lines |-> <<>>]

\* No background process has been spawned: there is no buffer.
NoOutput == <<>>

\* The buffer spawn_background_process creates, and its two readers.
NewOutput ==
    [ buf     |-> <<>>,
      arrived |-> 0,
      pend    |-> [s \in Sources |-> FALSE],
      left    |-> MaxLines,
      read    |-> NoRead ]

\* The search providers and the default minimum intervals, in seconds.
Providers == {"ddg", "brave"}

ddg_rate_limit_secs == 2

brave_rate_limit_secs == 1

rate_limit_secs(p) ==
    IF p = "ddg" THEN ddg_rate_limit_secs ELSE brave_rate_limit_secs

\* The tasks that search side by side, the clock's last second and the
\* requests of one run.
MaxSearchTasks == 2

MaxClock == 4

MaxRequests == 3

SearchTasks == 1..MaxSearchTasks

NoInstant == [some |-> FALSE, at |-> 0]

Instant(t) == [some |-> TRUE, at |-> t]

NoSearch == [pc |-> "idle", provider |-> "ddg", wake |-> 0]

\* No task has called a rate-limited wrapper.
NoLimiter == <<>>

\* The trackers as the process starts them (None), at second 0.
NewLimiter ==
    [ now    |-> 0,
      last   |-> [p \in Providers |-> NoInstant],
      t      |-> [k \in SearchTasks |-> NoSearch],
      starts |-> [p \in Providers |-> <<>>] ]

IoIdle == outbuf = NoOutput /\ limiter = NoLimiter

AuxIdle == toolLog = NoToolLog /\ LoopIdle /\ StdioIdle /\ IoIdle

ExtIdle == JoinIdle /\ ChildIdle /\ ExecIdle /\ FsIdle /\ UsageIdle /\ AuxIdle

---------------------------------------------------------------------------
(* SpecCtx: one ContextManager driven by any sequence of calls to           *)
(* update_token_usage, add_chars, increment_turn and evaluate.              *)

HistIdle == messages = <<>> /\ maskLog = NewMaskLog /\ issued = 0

NoSession == [number |-> 0, carryover_turns |-> 0, base |-> 0, reason |-> "none"]

SessIdle ==
    /\ pc = "idle" /\ turn = 0 /\ budget = 0 /\ pending = <<>>
    /\ session = NoSession /\ carryover = <<>> /\ shutdown = FALSE

CtxInit ==
    /\ RegIdle
    /\ ExtIdle
    /\ cm = NewContextManager
    /\ evalLog = NewEvalLog
    /\ HistIdle
    /\ SessIdle

CtxUpdateTokenUsage ==
    \E p \in 0..(ContextLimit + 1), c \in 0..1 :
        /\ cm.completion_tokens_total + c <= MaxCompletion
        /\ cm' = update_token_usage(cm, p, c)
        /\ usageLog' = LogUsage(usageLog, p, c)
        /\ UNCHANGED <<regVars, joinVars, child, execVars, fsVars, auxVars>>
        /\ UNCHANGED <<evalLog, histVars, sessVars>>

CtxAddChars ==
    \E n \in {CharsPerToken, 4 * CharsPerToken} :
        /\ cm.total_chars + n <= MaxChars
        /\ cm' = add_chars(cm, n)
        /\ UNCHANGED <<regVars, extVars>>
        /\ UNCHANGED <<evalLog, histVars, sessVars>>

CtxIncrementTurn ==
    /\ cm.turn_count < MaxTurnCount
    /\ cm' = increment_turn(cm)
    /\ UNCHANGED <<regVars, extVars>>
    /\ UNCHANGED <<evalLog, histVars, sessVars>>

CtxEvaluate ==
    /\ evalLog' = LogEvaluate(evalLog, cm)
    /\ cm' = evaluate_state(cm)
    /\ UNCHANGED <<regVars, extVars>>
    /\ UNCHANGED <<histVars, sessVars>>

\* prepare_restart: the manager starts its next session.
CtxPrepareRestart ==
    /\ cm' = prepare_restart(cm)
    /\ evalLog' = NewEvalLog
    /\ usageLog' = NewUsageLog
    /\ UNCHANGED <<regVars, joinVars, child, execVars, fsVars, auxVars>>
    /\ UNCHANGED <<histVars, sessVars>>

CtxNext ==
    \/ CtxUpdateTokenUsage
    \/ CtxAddChars
    \/ CtxIncrementTurn
    \/ CtxEvaluate
    \/ CtxPrepareRestart

SpecCtx == CtxInit /\ [][CtxNext]_vars

\* C3: within one session evaluate() returns WindDown at most once, and every
\* evaluate() made after that WindDown with usage at or above the hard
\* threshold returns Restart.
C3_WindDownOnceThenRestart ==
    /\ evalLog.windDowns <= 1
    /\ (evalLog.lastAfterWD /\ evalLog.lastAtHard) => evalLog.last = "Restart"

\* A WindDown was returned and a later evaluate(), the third at least, made at
\* or above the hard threshold, returned Restart.
C3_Witness ==
    /\ evalLog.windDowns = 1
    /\ evalLog.calls >= 3
    /\ evalLog.lastAfterWD /\ evalLog.lastAtHard
    /\ evalLog.last = "Restart"
    /\ cm.turn_count > 0 /\ cm.total_chars > 0

\* C21: evaluate() is determined by the usage and wind_down_sent, in this
\* order: at or above the hard threshold it returns Restart when
\* wind_down_sent is set, and else WindDown, setting wind_down_sent; at or
\* above the soft threshold Mask with count 3; otherwise Continue.  Usage
\* equal to a threshold reaches it, and evaluate changes nothing else.
C21_EvaluatePriorityOrder ==
    [][ (evalLog' # evalLog /\ evalLog'.last # "none") =>
          LET hard == usage_tokens(cm) * 100 >= HardPct * ContextLimit
              soft == usage_tokens(cm) * 100 >= SoftPct * ContextLimit
          IN  /\ evalLog'.last =
                    (IF hard /\ cm.wind_down_sent THEN "Restart"
                     ELSE IF hard THEN "WindDown"
                     ELSE IF soft THEN "Mask"
                     ELSE "Continue")
              /\ evalLog'.count = (IF soft /\ ~hard THEN 3 ELSE 0)
              /\ cm' = (IF hard /\ ~cm.wind_down_sent
                          THEN [cm EXCEPT !.wind_down_sent = TRUE]
                          ELSE cm) ]_vars

\* evaluate() returned WindDown with the usage exactly at the hard
\* threshold, after a Mask at a lower usage in the same session.
C21_Witness ==
    /\ evalLog.last = "WindDown"
    /\ evalLog.calls >= 2
    /\ usage_tokens(cm) * 100 = HardPct * ContextLimit
    /\ cm.wind_down_sent
    /\ evalLog.windDowns = 1

\* C20: after any sequence of update_token_usage(p_i, c_i) calls in a session,
\* prompt_tokens is the last p_i (0 before the first call) and
\* completion_tokens_total is the sum of the c_i; add_chars, increment_turn
\* and evaluate change neither, prepare_restart resets both.
C20_PromptSetCompletionSummed ==
    /\ cm.prompt_tokens = usageLog.last_prompt
    /\ cm.completion_tokens_total = usageLog.completion_sum

\* Two calls at least, the last with fewer prompt tokens than the one before,
\* with other operations of the manager in the session.
C20_Witness ==
    /\ usageLog.calls >= 2
    /\ usageLog.prompt_fell
    /\ cm.prompt_tokens = usageLog.last_prompt
    /\ cm.completion_tokens_total = MaxCompletion
    /\ cm.turn_count > 0 /\ cm.total_chars > 0 /\ evalLog.calls > 0

---------------------------------------------------------------------------
(* What the provider and the tools hand to the session.                    *)

\* Tool results: plain output, output that itself starts with "[" and holds
\* the word "masked", and output that only starts with "[".
ToolOutputs == { <<"out">>, <<"[", "masked", "log">>, <<"[", "warn">> }

ToolNames == {"file_read", "shell_exec"}

\* The n-th call-id the provider assigns.  Call-ids are unique; they are
\* taken verbatim from the stream (call.call_id).
ProviderCallId(n) == ToString(n)

\* The invocations of one assistant message: k calls with the next k ids.
ProviderCalls(first, fns) ==
    [k \in 1..Len(fns) |-> ToolCall(ProviderCallId(first + k), fns[k])]

\* The same with an empty first call-id: mask_oldest_observations is a public
\* function over any message slice, and its code provides for a response
\* whose call-id is empty (call_id.is_empty()).
CallsWithEmptyId(first, fns) ==
    [k \in 1..Len(fns) |->
        ToolCall(IF k = 1 THEN "" ELSE ProviderCallId(first + k), fns[k])]

FnSeqs == UNION {[1..k -> ToolNames] : k \in 1..MaxCalls}

\* The tool-responses appended for `calls`, in the order of the calls.
ResponsesFor(calls, outs) ==
    [k \in 1..Len(calls) |-> ToolResponseMsg(calls[k].call_id, outs[k])]

EmptyIdUsed(msgs) ==
    \E i \in 1..Len(msgs) : IsInvoking(msgs[i]) /\ "" \in CallIdsOf(msgs[i])

---------------------------------------------------------------------------
(* SpecMask: mask_oldest_observations applied, with any count and at any   *)
(* time, to histories built from the messages a session appends.  The      *)
(* history may start with a tool-response whose invocation was cut off     *)
(* (a carryover tail).                                                     *)

MaskInit ==
    /\ RegIdle
    /\ ExtIdle
    /\ cm = NewContextManager
    /\ evalLog = NewEvalLog
    /\ messages \in { <<>>, <<ToolResponseMsg("0", <<"out">>)>> }
    /\ maskLog = NewMaskLog
    /\ issued = 0
    /\ SessIdle

MkAppendText ==
    /\ Len(messages) < MaskMaxLen
    /\ messages' = Append(messages, AssistantText(<<"text">>))
    /\ UNCHANGED <<regVars, extVars>>
    /\ UNCHANGED <<ctxVars, maskLog, issued, sessVars>>

MkAppendSystem ==
    /\ Len(messages) < MaskMaxLen
    /\ messages' = Append(messages, SystemMsg(<<"[", "Context", "compressed">>))
    /\ UNCHANGED <<regVars, extVars>>
    /\ UNCHANGED <<ctxVars, maskLog, issued, sessVars>>

MkAppendToolTurn ==
    \E fns \in FnSeqs :
    \E outs \in [1..Len(fns) -> ToolOutputs] :
    \E calls \in {ProviderCalls(issued, fns)}
                   \cup (IF EmptyIdUsed(messages) THEN {}
                         ELSE {CallsWithEmptyId(issued, fns)}) :
        /\ Len(messages) + 1 + Len(fns) <= MaskMaxLen
        /\ messages' = messages \o <<AssistantCalls(calls)>> \o ResponsesFor(calls, outs)
        /\ issued' = issued + Len(fns)
        /\ UNCHANGED <<regVars, extVars>>
        /\ UNCHANGED <<ctxVars, maskLog, sessVars>>

MkMaskRound ==
    \E n \in 0..DEFAULT_MASK_BATCH_SIZE :
        /\ messages' = mask_messages(messages, n)
        /\ cm' = mask_context(cm, messages, n)
        /\ maskLog' = LogMask(maskLog, messages, n)
        /\ UNCHANGED <<regVars, extVars>>
        /\ UNCHANGED <<evalLog, issued, sessVars>>

MaskNext ==
    \/ MkAppendText
    \/ MkAppendSystem
    \/ MkAppendToolTurn
    \/ MkMaskRound

SpecMask == MaskInit /\ [][MaskNext]_vars

\* The invocation/response pairs of a history that are matched by call-id.
MatchedPairs(msgs) ==
    {<<i, j>> \in (1..Len(msgs)) \X (1..Len(msgs)) :
        IsInvoking(msgs[i]) /\ IsTool(msgs[j]) /\ msgs[j].call_id \in CallIdsOf(msgs[i])}

\* C4: a masking round never changes the number or order of messages, leaves
\* every non-Tool-role message unchanged, keeps the call-id of each
\* tool-response it replaces, and so keeps every invocation/response pair
\* that was matched by call-id matched.
C4_MaskKeepsStructure ==
    maskLog.rounds > 0 =>
        LET b == maskLog.before
            a == maskLog.after
        IN  /\ Len(a) = Len(b)
            /\ \A i \in 1..Len(b) : a[i].role = b[i].role
            /\ \A i \in 1..Len(b) : ~IsTool(b[i]) => a[i] = b[i]
            /\ \A i \in 1..Len(b) : IsTool(b[i]) => a[i].call_id = b[i].call_id
            /\ MatchedPairs(b) \subseteq MatchedPairs(a)

\* What does hold of the structure: everything but the call-id of a response
\* whose call-id was empty.
C4_MaskKeepsShape ==
    maskLog.rounds > 0 =>
        LET b == maskLog.before
            a == maskLog.after
        IN  /\ Len(a) = Len(b)
            /\ \A i \in 1..Len(b) : a[i].role = b[i].role
            /\ \A i \in 1..Len(b) : ~IsTool(b[i]) => a[i] = b[i]
            /\ \A i \in 1..Len(b) :
                  (IsTool(b[i]) /\ b[i].call_id # "") => a[i].call_id = b[i].call_id

---------------------------------------------------------------------------
(* Carryover extraction                                                    *)

SubSeqFrom(msgs, start) == SubSeq(msgs, start, Len(msgs))

\* The indices pushed to `boundaries`: walking backward, the text-only
\* assistant messages, until n_turns of them were found.
boundaries(msgs, n_turns) ==
    LET T == {i \in 1..Len(msgs) : IsTextAssistant(msgs[i])}
    IN  {i \in T : Cardinality({j \in T : j > i}) < n_turns}

\* messages.len().saturating_sub(n_turns * 3), as a 1-based first index.
fallback_start(msgs, n_turns) ==
    IF Len(msgs) > 3 * n_turns THEN Len(msgs) - 3 * n_turns + 1 ELSE 1

\* Back up one message when the one before start_idx is user or system.
adjusted_start(msgs, start_idx) ==
    IF start_idx > 1 /\ msgs[start_idx - 1].role \in {"user", "system"}
      THEN start_idx - 1
      ELSE start_idx

extract_carryover(msgs, n_turns) ==
    IF n_turns = 0 \/ Len(msgs) = 0 THEN <<>>
    ELSE LET B == boundaries(msgs, n_turns)
         IN  IF B = {}
               THEN SubSeqFrom(msgs, fallback_start(msgs, n_turns))
               ELSE SubSeqFrom(msgs,
                       adjusted_start(msgs, CHOOSE i \in B : \A j \in B : i <= j))

---------------------------------------------------------------------------
(* run_agent_session and the outer restart loop.  A failing write of the   *)
(* session log makes run_agent_session return Err from wherever it stands; *)
(* that exit is left out, as are the pause flag and the TUI events, which  *)
(* touch neither the history nor the context manager.                      *)

TextLen(content) == CharsPerToken * Len(content)

\* The system prompt counts CharsPerToken chars here.
SystemPromptLen == CharsPerToken

RestartMarker   == SystemMsg(<<"[", "Session", "restarted">>)
WindDownMessage == SystemMsg(<<"[", "Context", "window", "full">>)
MaskNotice      == SystemMsg(<<"[", "Context", "compressed">>)
GoalMessage     == SystemMsg(<<"You", "are", "a", "sub-agent">>)

\* Token levels a stream end reports: low, the soft and the hard threshold.
UsageLevels ==
    { 1, (SoftPct * ContextLimit + 99) \div 100, (HardPct * ContextLimit + 99) \div 100 }

\* Tool results a dispatch returns in a session.
SessionOutputs == { <<"out">> }

\* The sleep tool's confirmation: {"sleep_requested": true, ...}.
SleepMarker == <<"sleep_requested">>

\* The invocation lists a stream end captures: 1..MaxCalls calls, or one
\* call of the sleep tool.
SessionFnSeqs ==
    {[k \in 1..n |-> "shell_exec"] : n \in 1..MaxCalls} \cup {<<"sleep">>}

\* chat_req at the start of a session: the carryover messages, then the
\* restart marker when session_number > 1.  (The system prompt is the
\* request's `system` field, not a message.)
initial_messages(carry, session_number) ==
    IF session_number > 1 THEN Append(carry, RestartMarker) ELSE carry

StartSession(carry, number, n_turns) ==
    /\ messages' = initial_messages(carry, number)
    /\ cm' = add_chars(NewContextManager, SystemPromptLen)
    /\ evalLog' = NewEvalLog
    /\ maskLog' = NewMaskLog
    /\ session' = [ number |-> number, carryover_turns |-> n_turns,
                    base |-> Len(initial_messages(carry, number)),
                    reason |-> "none" ]
    /\ pc' = "top"
    /\ turn' = 0
    /\ pending' = <<>>
    /\ loopLog' = NewLoopLog

\* The first session: a root session starts with no carryover, a sub-agent's
\* session with its goal as the one carryover message.
SessInit ==
    /\ RegIdle
    /\ ExtIdle
    /\ \E n \in 1..MaxCarryoverTurns, carry \in {<<>>, <<GoalMessage>>} :
          /\ messages = initial_messages(carry, 1)
          /\ session = [ number |-> 1, carryover_turns |-> n,
                         base |-> Len(carry), reason |-> "none" ]
    /\ cm = add_chars(NewContextManager, SystemPromptLen)
    /\ evalLog = NewEvalLog
    /\ maskLog = NewMaskLog
    /\ issued = 0
    /\ pc = "top" /\ turn = 0 /\ budget = MaxTurns /\ pending = <<>>
    /\ carryover = <<>> /\ shutdown = FALSE

EndSession(reason) ==
    /\ pc' = "done"
    /\ session' = [session EXCEPT !.reason = reason]

\* Ctrl+C: the signal task stores true in the shutdown flag.
SetShutdown ==
    /\ ~shutdown
    /\ pc # "idle"
    /\ shutdown' = TRUE
    /\ UNCHANGED <<regVars, sessExt, loopVars>>
    /\ UNCHANGED <<ctxVars, histVars, pc, turn, budget, pending, session, carryover>>

\* Top of the loop with the flag set: break with user_shutdown.
SessShutdownCheck ==
    /\ pc = "top" /\ shutdown
    /\ EndSession("UserShutdown")
    /\ UNCHANGED <<regVars, sessExt, loopVars>>
    /\ UNCHANGED <<ctxVars, histVars, turn, budget, pending, carryover, shutdown>>

\* turn += 1, the Thinking event and the stream request.  The observer
\* forgets the sleep marker of the turn before.
start_turn ==
    /\ turn' = turn + 1
    /\ budget' = budget - 1
    /\ pc' = "stream"
    /\ loopLog' = [loopLog EXCEPT !.sleep_requested = FALSE]

\* Top of the loop, shutdown flag clear and no pause requested (no pause
\* flag, or the flag clear): the next turn starts.
SessStartTurn ==
    /\ pc = "top" /\ ~shutdown
    /\ ~(pause.some /\ pause.flag)
    /\ budget > 0
    /\ start_turn
    /\ UNCHANGED <<regVars, sessExt, pause>>
    /\ UNCHANGED <<ctxVars, histVars, pending, session, carryover, shutdown>>

\* The pause test at the top of the loop, reached with the shutdown flag
\* clear: `if let Some(ref pf) = pause_flag { if pf.load(..) {`.
pause_requested(p, sd_flag) == ~sd_flag /\ p.some /\ p.flag

\* Top of the loop, shutdown flag clear, pause flag set: the Paused event
\* is sent and the spin-wait begins.
SessPauseEnter ==
    /\ pc = "top"
    /\ pause_requested(pause, shutdown)
    /\ pc' = "paused"
    /\ UNCHANGED <<regVars, sessExt, loopVars>>
    /\ UNCHANGED <<ctxVars, histVars, turn, budget, pending, session, carryover,
                   shutdown>>

spin_wait_ends_NoWait(p, sd_flag) == TRUE

spin_wait_ends_OnlyOnResume(p, sd_flag) == ~p.flag

\* `while pf.load(..) && !shutdown.load(..)` finds its condition false.
spin_wait_ends(p, sd_flag) == ~(p.flag /\ ~sd_flag)

\* The spin-wait ends: the pause flag was cleared or the shutdown flag set.
\* (An iteration that finds neither sleeps 100 ms and changes nothing.)
SessPauseExit ==
    /\ pc = "paused"
    /\ spin_wait_ends(pause, shutdown)
    /\ pc' = "woken"
    /\ UNCHANGED <<regVars, sessExt, loopVars>>
    /\ UNCHANGED <<ctxVars, histVars, turn, budget, pending, session, carryover,
                   shutdown>>

\* After the spin-wait the shutdown flag is read again: set, the session
\* ends with user_shutdown.
SessPauseShutdown ==
    /\ pc = "woken" /\ shutdown
    /\ EndSession("UserShutdown")
    /\ UNCHANGED <<regVars, sessExt, loopVars>>
    /\ UNCHANGED <<ctxVars, histVars, turn, budget, pending, carryover, shutdown>>

\* After the spin-wait, shutdown flag clear: the Idle event is sent and the
\* next turn starts.
SessPauseResume ==
    /\ pc = "woken" /\ ~shutdown
    /\ budget > 0
    /\ start_turn
    /\ UNCHANGED <<regVars, sessExt, pause>>
    /\ UNCHANGED <<ctxVars, histVars, pending, session, carryover, shutdown>>

\* The operator's `p` key while the dashboard does not show Paused.
PressPause ==
    /\ pause.some /\ ~pause.flag
    /\ pc \notin {"idle", "exited"}
    /\ pause' = [pause EXCEPT !.flag = TRUE]
    /\ UNCHANGED <<regVars, sessExt, loopLog>>
    /\ UNCHANGED <<ctxVars, histVars, sessVars>>

\* The operator's `p` key while the dashboard shows Paused (or `r` while it
\* shows Sleeping).
PressResume ==
    /\ pause.some /\ pause.flag
    /\ pc \notin {"idle", "exited"}
    /\ pause' = [pause EXCEPT !.flag = FALSE]
    /\ UNCHANGED <<regVars, sessExt, loopLog>>
    /\ UNCHANGED <<ctxVars, histVars, sessVars>>

\* exec_chat_stream fails: the session ends with MaxTurnsOrError.
SessStreamError ==
    /\ pc = "stream"
    /\ EndSession("MaxTurnsOrError")
    /\ UNCHANGED <<regVars, sessExt, loopVars>>
    /\ UNCHANGED <<ctxVars, histVars, turn, budget, pending, carryover, shutdown>>

\* The context manager after the stream's End event and the text logging.
after_stream(c, usage, text) ==
    LET c1 == IF usage = 0 THEN c ELSE update_token_usage(c, usage, 1)
    IN  IF text = <<>> THEN c1 ELSE add_chars(c1, TextLen(text))

\* The stream ended with no tool call: the text, when there is one, is
\* appended as an assistant message.
SessTextTurn ==
    /\ pc = "stream"
    /\ \E usage \in {0} \cup UsageLevels, text \in {<<>>, <<"text">>} :
          /\ cm' = after_stream(cm, usage, text)
          /\ messages' = IF text = <<>> THEN messages
                                        ELSE Append(messages, AssistantText(text))
    /\ pc' = "between"
    /\ UNCHANGED <<regVars, sessExt, loopVars>>
    /\ UNCHANGED <<evalLog, maskLog, issued, turn, budget, pending, session,
                   carryover, shutdown>>

\* The stream ended with tool calls: the assistant message carrying them is
\* appended (streamed text is counted but is not part of the message) and
\* the calls wait for dispatch.
SessToolTurn ==
    /\ pc = "stream"
    /\ \E usage \in {0} \cup UsageLevels, fns \in SessionFnSeqs,
          text \in {<<>>, <<"text">>} :
          /\ cm' = after_stream(cm, usage, text)
          /\ messages' = Append(messages, AssistantCalls(ProviderCalls(issued, fns)))
          /\ pending' = ProviderCalls(issued, fns)
          /\ issued' = issued + Len(fns)
    /\ pc' = "tools"
    /\ UNCHANGED <<regVars, sessExt, loopVars>>
    /\ UNCHANGED <<evalLog, maskLog, turn, budget, session, carryover, shutdown>>

tool_response_WrongCall(call, calls, result) ==
    ToolResponseMsg(calls[Len(calls)].call_id, result)

\* ToolResponse::new(call_id.clone(), result) for the call being dispatched;
\* `calls` are the calls of the turn still to be answered, `call` the first.
tool_response(call, calls, result) ==
    ToolResponseMsg(call.call_id, result)

\* What dispatch_tool_call returns for a call of the session: the sleep
\* tool's confirmation, or a tool's output.
SessionResults(call) ==
    IF call.fn_name = "sleep" THEN {SleepMarker} ELSE SessionOutputs

\* One iteration of `for call in &captured_tool_calls`: dispatch, count the
\* result's chars, append the tool-response.
SessToolCall ==
    /\ pc = "tools"
    /\ \E result \in SessionResults(Head(pending)) :
          /\ cm' = add_chars(cm, TextLen(result))
          /\ messages' = Append(messages, tool_response(Head(pending), pending, result))
          /\ loopLog' = [loopLog EXCEPT !.sleep_requested = @ \/ result = SleepMarker]
    /\ pending' = Tail(pending)
    /\ pc' = IF Len(pending) = 1 THEN "between" ELSE "tools"
    /\ UNCHANGED <<regVars, sessExt, pause>>
    /\ UNCHANGED <<evalLog, maskLog, issued, turn, budget, session, carryover, shutdown>>

\* After the turn: increment_turn, evaluate, and the action's arm.
SessBetween ==
    /\ pc = "between"
    /\ LET c1  == increment_turn(cm)
           act == evaluate_action(c1)
           c2  == evaluate_state(c1)
       IN  /\ evalLog' = LogEvaluate(evalLog, c1)
           /\ CASE act = "Continue" ->
                     /\ cm' = c2
                     /\ pc' = "top"
                     /\ UNCHANGED <<messages, maskLog, session, carryover, loopLog>>
                [] act = "Mask" ->
                     /\ cm' = mask_context(c2, messages, DEFAULT_MASK_BATCH_SIZE)
                     /\ messages' = Append(mask_messages(messages, DEFAULT_MASK_BATCH_SIZE),
                                           MaskNotice)
                     /\ maskLog' = LogMask(maskLog, messages, DEFAULT_MASK_BATCH_SIZE)
                     /\ pc' = "top"
                     /\ UNCHANGED <<session, carryover, loopLog>>
                [] act = "WindDown" ->
                     /\ cm' = c2
                     /\ messages' = Append(messages, WindDownMessage)
                     /\ pc' = "top"
                     /\ loopLog' = [loopLog EXCEPT !.wind_down_turn = turn]
                     /\ UNCHANGED <<maskLog, session, carryover>>
                [] act = "Restart" ->
                     /\ cm' = c2
                     /\ carryover' = extract_carryover(messages, session.carryover_turns)
                     /\ EndSession("ContextFull")
                     /\ UNCHANGED <<messages, maskLog, loopLog>>
    /\ UNCHANGED <<regVars, sessExt, pause>>
    /\ UNCHANGED <<issued, turn, budget, pending, shutdown>>

outer_loop_restarts_IgnoresFlag(reason, session_number, max_restarts, flag) ==
    /\ reason = "ContextFull"
    /\ ~(session_number >= max_restarts)

\* The match on shutdown_reason in the outer loop: the loop goes round again
\* only in the ContextFull arm, and there only when max_restarts (Some(max))
\* is not reached and the shutdown flag is clear; everywhere else it breaks.
outer_loop_restarts(reason, session_number, max_restarts, flag) ==
    /\ reason = "ContextFull"
    /\ ~(session_number >= max_restarts)
    /\ ~flag

\* The outer loop on ContextFull: unless max_restarts is reached or the
\* shutdown flag is set, session_number += 1 and the next session starts
\* with the returned carryover.
OuterRestart ==
    /\ pc = "done"
    /\ outer_loop_restarts(session.reason, session.number, MaxSessions, shutdown)
    /\ StartSession(carryover, session.number + 1, session.carryover_turns)
    /\ UNCHANGED <<regVars, sessExt, pause>>
    /\ UNCHANGED <<issued, budget, carryover, shutdown>>

\* The outer loop breaks: no further session is started.
OuterExit ==
    /\ pc = "done"
    /\ ~outer_loop_restarts(session.reason, session.number, MaxSessions, shutdown)
    /\ pc' = "exited"
    /\ UNCHANGED <<regVars, sessExt, loopVars>>
    /\ UNCHANGED <<ctxVars, histVars, turn, budget, pending, session, carryover,
                   shutdown>>

\* A wake condition of a requested sleep occurs: the timer elapses, the
\* awaited sub-agent ends, or the operator resumes.
WakeCondition ==
    /\ loopLog.sleep_requested
    /\ loopLog' = [loopLog EXCEPT !.sleep_requested = FALSE]
    /\ UNCHANGED <<regVars, sessExt, pause>>
    /\ UNCHANGED <<ctxVars, histVars, sessVars>>

SessNext ==
    \/ SetShutdown
    \/ WakeCondition
    \/ SessShutdownCheck
    \/ SessStartTurn
    \/ SessStreamError
    \/ SessTextTurn
    \/ SessToolTurn
    \/ SessToolCall
    \/ SessBetween
    \/ OuterRestart
    \/ OuterExit

\* A session of the dashboard: the root session, run with a pause flag
\* that starts clear.
PauseInit ==
    /\ RegIdle
    /\ JoinIdle /\ ChildIdle /\ ExecIdle /\ FsIdle /\ UsageIdle
    /\ toolLog = NoToolLog
    /\ pause = [some |-> TRUE, flag |-> FALSE]
    /\ loopLog = NewLoopLog
    /\ StdioIdle /\ IoIdle
    /\ \E n \in 1..MaxCarryoverTurns :
          /\ messages = initial_messages(<<>>, 1)
          /\ session = [ number |-> 1, carryover_turns |-> n,
                         base |-> 0, reason |-> "none" ]
    /\ cm = add_chars(NewContextManager, SystemPromptLen)
    /\ evalLog = NewEvalLog
    /\ maskLog = NewMaskLog
    /\ issued = 0
    /\ pc = "top" /\ turn = 0 /\ budget = PauseTurns /\ pending = <<>>
    /\ carryover = <<>> /\ shutdown = FALSE

PauseNext ==
    \/ SessNext
    \/ PressPause
    \/ PressResume
    \/ SessPauseEnter
    \/ SessPauseExit
    \/ SessPauseShutdown
    \/ SessPauseResume

SpecPause == PauseInit /\ [][PauseNext]_vars

\* A step of run_agent_session or of the outer loop around it.
SessionStep ==
    \/ SessShutdownCheck
    \/ SessStartTurn
    \/ SessPauseEnter
    \/ SessPauseExit
    \/ SessPauseShutdown
    \/ SessPauseResume
    \/ SessStreamError
    \/ SessTextTurn
    \/ SessToolTurn
    \/ SessToolCall
    \/ SessBetween

\* The session's task keeps being polled, and the stream, the tool calls
\* and the 100 ms sleep of the spin-wait it awaits complete.
SpecPauseFair == SpecPause /\ WF_vars(SessionStep)

SpecSession == SessInit /\ [][SessNext]_vars

\* A between-turn point: control is at the top of the turn loop, or the
\* session has returned ContextFull.
BetweenTurns ==
    \/ pc = "top"
    \/ pc = "done" /\ session.reason = "ContextFull"

\* The tool-response messages of a history that carry call-id `id`.
ResponsesTo(msgs, id) == {j \in 1..Len(msgs) : IsTool(msgs[j]) /\ msgs[j].call_id = id}

\* C1: at every between-turn point, every invocation of an assistant message
\* appended in this session has exactly one tool-response with its call-id,
\* and the responses of one assistant message follow it contiguously, in
\* the order of its invocations.
C1_OneResponsePerInvocation ==
    BetweenTurns =>
        \A i \in (session.base + 1)..Len(messages) :
            IsInvoking(messages[i]) =>
                \A k \in 1..Len(messages[i].calls) :
                    /\ i + k <= Len(messages)
                    /\ ResponsesTo(messages, messages[i].calls[k].call_id) = {i + k}

\* A restarted session, between turns, whose own history holds an assistant
\* message with two invocations.
C1_Witness ==
    /\ pc = "top"
    /\ session.number = 2
    /\ \E i \in (session.base + 1)..Len(messages) :
          IsInvoking(messages[i]) /\ Len(messages[i].calls) = 2

\* The tail starts with a tool-response whose invocation is not in the tail.
BeginsWithOrphan(tail) ==
    /\ Len(tail) > 0
    /\ IsTool(tail[1])
    /\ ~\E i \in 1..Len(tail) : IsInvoking(tail[i]) /\ tail[1].call_id \in CallIdsOf(tail[i])

\* The tail ends inside a tool turn: its last assistant tool-invocation
\* message is followed by fewer tool-responses than it has invocations.
EndsInsideInvocation(tail) ==
    \E i \in 1..Len(tail) :
        /\ IsInvoking(tail[i])
        /\ \A j \in (i + 1)..Len(tail) : IsTool(tail[j])
        /\ Len(tail) - i < Len(tail[i].calls)

\* C2: the carryover a session returns with ContextFull never begins with an
\* orphan tool-response and never ends between an invocation and its
\* responses, also when the 3 * n_turns fallback selected it.
C2_CarryoverKeepsPairs ==
    (pc = "done" /\ session.reason = "ContextFull") =>
        /\ ~BeginsWithOrphan(carryover)
        /\ ~EndsInsideInvocation(carryover)

\* The tail ends with a text-only assistant message or with the last
\* tool-response of an invocation message all of whose invocations are
\* answered.
EndsOnCompleteTurn(tail) ==
    LET n == Len(tail)
    IN  \/ IsTextAssistant(tail[n])
        \/ /\ IsTool(tail[n])
           /\ \E i \in 1..(n - 1) :
                 /\ IsInvoking(tail[i])
                 /\ n - i = Len(tail[i].calls)
                 /\ \A k \in 1..Len(tail[i].calls) :
                       IsTool(tail[i + k]) /\ tail[i + k].call_id = tail[i].calls[k].call_id

\* C19: the carryover a session returns with ContextFull begins with a user
\* or system message and ends with a text-only assistant message or with the
\* last tool-response of a complete invocation/response group.
C19_CarryoverFirstAndLast ==
    (pc = "done" /\ session.reason = "ContextFull" /\ Len(carryover) > 0) =>
        /\ carryover[1].role \in {"user", "system"}
        /\ EndsOnCompleteTurn(carryover)

\* C18: a session is started after the first only by the outer loop, from a
\* session that returned ContextFull, with the shutdown flag clear and
\* max_restarts not reached; its number is the previous number plus one and
\* it starts from exactly the carryover that session returned.  After
\* UserShutdown or MaxTurnsOrError, with the flag set, or with max_restarts
\* reached, the loop only exits.
C18_RestartOnlyAfterContextFull ==
    [][ /\ session'.number # session.number =>
              /\ pc = "done" /\ session.reason = "ContextFull"
              /\ ~shutdown
              /\ session.number < MaxSessions
              /\ session'.number = session.number + 1
              /\ carryover' = carryover
              /\ Len(messages') >= Len(carryover)
              /\ SubSeq(messages', 1, Len(carryover)) = carryover
              /\ pc' = "top" /\ turn' = 0
        /\ ( /\ pc = "done"
             /\ \/ session.reason \in {"UserShutdown", "MaxTurnsOrError"}
                \/ shutdown
                \/ session.number >= MaxSessions )
              => (pc' \in {"done", "exited"} /\ session' = session
                  /\ messages' = messages)
      ]_vars

\* A second session was started from a carryover that is not empty, ran, and
\* the loop has exited after it.
C18_Witness ==
    /\ pc = "exited"
    /\ session.number = 2
    /\ session.base > 1
    /\ Len(messages) > session.base

\* The tool-responses of the history that this session appended.
ProducedInSession ==
    Cardinality({i \in (session.base + 1)..Len(messages) : IsTool(messages[i])})

\* The text generate_placeholder writes: "[<fn> result masked ...".
IsPlaceholder(content) ==
    /\ Len(content) >= 4
    /\ content[1] = "[" /\ content[3] = "result" /\ content[4] = MASKED_MARKER

\* Masking is idempotent: no message is replaced twice, a placeholder is
\* never replaced, and a round over a history whose tool-responses are all
\* placeholders returns 0 and changes nothing.
MaskIdempotent ==
    /\ \A i \in DOMAIN maskLog.times : maskLog.times[i] <= 1
    /\ maskLog.rounds > 0 =>
          /\ \A i \in 1..Len(maskLog.before) :
                (IsTool(maskLog.before[i]) /\ IsPlaceholder(maskLog.before[i].content))
                    => maskLog.after[i] = maskLog.before[i]
          /\ (\A i \in 1..Len(maskLog.before) :
                 IsTool(maskLog.before[i]) => IsPlaceholder(maskLog.before[i].content))
               => (maskLog.masked_now = 0 /\ maskLog.after = maskLog.before)

\* C5 as stated: masking is idempotent and masked_count never exceeds the
\* number of tool-responses produced in the session.
C5_MaskedAtMostProduced ==
    /\ MaskIdempotent
    /\ cm.masked_count <= ProducedInSession

\* C5, amended: masking is idempotent and masked_count never exceeds the
\* number of tool-responses in the session's history, those carried over
\* from the previous session included.
C5_MaskedAtMostInHistory ==
    /\ MaskIdempotent
    /\ cm.masked_count <= Cardinality({i \in 1..Len(messages) : IsTool(messages[i])})

\* A second round found every tool-response of the history masked by the
\* first one and returned 0.
C5_Witness ==
    /\ maskLog.rounds = 2
    /\ maskLog.masked_now = 0
    /\ cm.masked_count >= 2
    /\ \E i \in 1..Len(maskLog.before) : IsTool(maskLog.before[i])


---------------------------------------------------------------------------
(* SpecChild: the task spawn_llm_sub_agent starts.  It runs one session    *)
(* (session 1, the goal as its carryover, a shutdown flag of its own) in a *)
(* select! beside cancel_token.cancelled() and the optional timeout, while *)
(* a second task stores true in the flag once the token is cancelled.      *)
(* The session future is suspended, and so can be dropped by select!, at   *)
(* its awaits: the model stream and dispatch_tool_call.                    *)

ChildInit ==
    /\ RegIdle
    /\ JoinIdle /\ ExecIdle /\ FsIdle /\ UsageIdle /\ AuxIdle
    /\ child = [NoChild EXCEPT !.task = "select"]
    /\ \E n \in 1..MaxCarryoverTurns :
          session = [ number |-> 1, carryover_turns |-> n,
                      base |-> 1, reason |-> "none" ]
    /\ messages = initial_messages(<<GoalMessage>>, 1)
    /\ cm = add_chars(NewContextManager, SystemPromptLen)
    /\ evalLog = NewEvalLog
    /\ maskLog = NewMaskLog
    /\ issued = 0
    /\ pc = "top" /\ turn = 0 /\ budget = MaxTurns /\ pending = <<>>
    /\ carryover = <<>> /\ shutdown = FALSE

ChildFrame ==
    /\ UNCHANGED <<regVars, joinVars, execVars, fsVars, usageLog, auxVars>>
    /\ UNCHANGED <<ctxVars, histVars>>

\* kill_agent for the child or an ancestor, or shutdown_all: the child's
\* token is cancelled.
ChildTokenCancel ==
    /\ child.task # "none"
    /\ ~child.token_cancelled
    /\ child' = [child EXCEPT !.token_cancelled = TRUE]
    /\ ChildFrame
    /\ UNCHANGED sessVars

\* The bridge task: token.cancelled().await, then flag.store(true).
ChildBridge ==
    /\ child.token_cancelled
    /\ ~shutdown
    /\ shutdown' = TRUE
    /\ ChildFrame
    /\ UNCHANGED <<child, pc, turn, budget, pending, session, carryover>>

\* The session future is polled and takes one of run_agent_session's steps.
ChildSessionStep ==
    /\ child.task = "select"
    /\ \/ SessShutdownCheck
       \/ SessStartTurn
       \/ SessStreamError
       \/ SessTextTurn
       \/ SessToolTurn
       \/ SessToolCall
       \/ SessBetween

\* SubAgentStatus for a session that returned.
session_status(reason) ==
    IF reason = "MaxTurnsOrError" THEN "Failed" ELSE "Completed"

\* What the task records when it leaves its select!: where the session
\* stood, how many invocations of the turn had no tool-response yet, and
\* whether a dispatch (a shell_exec, whose process execute_shell had still
\* to wait for) was in progress.
LeaveSelect(outcome) ==
    child' = [child EXCEPT !.task = "done",
                           !.outcome = outcome,
                           !.left_at = pc,
                           !.unanswered = Len(pending),
                           !.shell_running = (pc = "tools")]

\* select!: `result = session_future`.
ChildSessionReturns ==
    /\ child.task = "select"
    /\ pc = "done"
    /\ LeaveSelect(session_status(session.reason))
    /\ ChildFrame
    /\ UNCHANGED sessVars

\* select!: whether the branch `_ = cancel_token.cancelled()` can be taken:
\* the token is cancelled and the session future is pending at an await.
select_cancelled_ready(token_cancelled, session_pc) ==
    token_cancelled /\ session_pc \in {"stream", "tools"}

\* select!: `_ = cancel_token.cancelled()`: the session future is dropped
\* where it stands and the task goes on to report "sub-agent cancelled".
ChildSelectCancelled ==
    /\ child.task = "select"
    /\ select_cancelled_ready(child.token_cancelled, pc)
    /\ LeaveSelect("Killed")
    /\ ChildFrame
    /\ UNCHANGED sessVars

\* select! with a timeout: `_ = tokio::time::sleep(dur)`.
ChildTimedOut ==
    /\ child.task = "select"
    /\ pc \in {"stream", "tools"}
    /\ LeaveSelect("Failed")
    /\ ChildFrame
    /\ UNCHANGED sessVars

ChildNext ==
    \/ ChildTokenCancel
    \/ ChildBridge
    \/ ChildSessionStep
    \/ ChildSessionReturns
    \/ ChildSelectCancelled
    \/ ChildTimedOut

SpecChild == ChildInit /\ [][ChildNext]_vars

\* C11: a child whose task ended because its token was cancelled ended at a
\* between-turn check of its session: the session had returned, no
\* invocation of its last turn was left without a tool-response, and no
\* dispatch was in progress.
C11_CancelOnlyBetweenTurns ==
    (child.task = "done" /\ child.token_cancelled
        /\ child.outcome \in {"Killed", "Completed"}) =>
        /\ child.left_at = "done"
        /\ child.unanswered = 0
        /\ ~child.shell_running
        /\ \A i \in (session.base + 1)..Len(messages) :
              IsInvoking(messages[i]) =>
                  \A k \in 1..Len(messages[i].calls) :
                      ResponsesTo(messages, messages[i].calls[k].call_id) # {}

---------------------------------------------------------------------------
(* Spawners, their tasks, kill_agent and shutdown_all sharing one          *)
(* SubAgentManager.  Every step below holds the entries mutex for its      *)
(* whole duration, as the methods of the manager do.                       *)

\* A manager just built by SubAgentManager::new, and the spawn calls to come.
RegStart(spawns) ==
    /\ entries = <<>> /\ tasks = <<>>
    /\ tokParent = <<>> /\ cancelled = {}
    /\ spawning = {} /\ regLog = NewRegLog
    /\ cancelCalls = {} /\ sd = "idle"
    /\ spawnsLeft = spawns
    /\ ExtIdle
    /\ cm = NewContextManager
    /\ evalLog = NewEvalLog
    /\ HistIdle
    /\ SessIdle

RegIds == 1..Len(entries)

\* The sub-agents whose task is still in its select!: for an LLM session
\* that is the running session, whose tool calls are dispatched.
RunningSessions ==
    {id \in RegIds : tasks[id].pc = "select"}

\* The first steps of spawn_llm_sub_agent and spawn_background_process:
\* the child token is created, register is still to come.
SpawnBegin(parent_id, caller) ==
    /\ spawnsLeft > 0
    /\ spawnsLeft' = spawnsLeft - 1
    /\ Cardinality(spawning) < MaxInFlight
    /\ LET from == create_child_token(entries, parent_id)
           t    == Len(tokParent) + 1
       IN  /\ tokParent' = Append(tokParent, from)
           /\ cancelled' = IF from \in cancelled THEN cancelled \cup {t} ELSE cancelled
           /\ spawning' = spawning \cup
                 {[parent_id |-> parent_id, token |-> t, caller |-> caller]}
    /\ UNCHANGED <<entries, tasks, regLog, cancelCalls, sd>>
    /\ UNCHANGED <<ctxVars, histVars, sessVars, extVars>>

\* A spawner called with a parent_id of the caller's choice: none, a
\* registered entry, or an id that is not registered.
ApiSpawn ==
    \E parent_id \in {NoId, UnknownId} \cup RegIds :
        SpawnBegin(parent_id, NoId)

\* dispatch_spawn_llm_session / dispatch_spawn_background_task for a tool
\* call of the root agent's session (caller NoId) or of a sub-agent's
\* session: the spawner is called with parent_id = None.
DispatchSpawn ==
    \E caller \in {NoId} \cup RunningSessions :
        SpawnBegin(NoId, caller)

\* manager.register(id, kind, parent_id, cancel_token) and, when it
\* returned Ok, tokio::spawn of the monitor / session task.
RegisterCall(s, id) ==
    LET err == register_result(entries, id, s.parent_id)
    IN  /\ spawning' = spawning \ {s}
        /\ regLog' = [ error |-> err, len_before |-> Len(entries),
                       depth |-> register_depth(entries, s.parent_id) ]
        /\ entries' = register(entries, id, s.parent_id, s.token, s.caller)
        /\ tasks' = IF err = "ok" THEN Append(tasks, NewTask) ELSE tasks
        /\ UNCHANGED <<tokParent, cancelled, cancelCalls, sd, spawnsLeft>>
        /\ UNCHANGED <<ctxVars, histVars, sessVars, extVars>>

\* The spawners register a fresh UUID.
Register ==
    \E s \in spawning : RegisterCall(s, Len(entries) + 1)

\* register called with an id that is registered already.
RegisterDuplicate ==
    \E s \in spawning : \E id \in RegIds : RegisterCall(s, id)

\* What the task's select! can yield: the session or the process ends
\* (Completed, Failed), and, once the entry's token is cancelled, also the
\* cancelled() branch (Killed); select! takes any branch that is ready.
TaskOutcomes(id) ==
    IF entries[id].cancel_token \in cancelled
      THEN {"Completed", "Failed", "Killed"}
      ELSE {"Completed", "Failed"}

\* SubAgentResult.status for the outcome.
result_status(outcome) ==
    CASE outcome = "Completed" -> "completed"
      [] outcome = "Killed"    -> "killed"
      [] OTHER                 -> "failed"

set_result_Dropped(es, id, result) == es

set_result(es, id, result) == [es EXCEPT ![id].result = result]

select_events_NoReap(outcome) ==
    IF outcome = "Killed" THEN <<"killpg">> ELSE <<"wait">>

\* What the branch select! took did to the child: the wait branch returned
\* from child.wait(); the cancellation branch sent SIGKILL to the process
\* group and then awaited child.wait().
select_events(outcome) ==
    IF outcome = "Killed" THEN <<"killpg", "wait">> ELSE <<"wait">>

\* The task leaves its select! with an outcome, builds the SubAgentResult
\* and calls set_result; update_status is a second call, made later.
TaskSetResult ==
    \E id \in RegIds :
        /\ tasks[id].pc = "select"
        /\ \E o \in TaskOutcomes(id) :
              /\ entries' = set_result(entries, id, result_status(o))
              /\ tasks' = [tasks EXCEPT ![id] =
                    [ pc |-> "update_status", outcome |-> o,
                      cancel_seen |-> entries[id].cancel_token \in cancelled ]]
        /\ UNCHANGED <<tokParent, cancelled, spawning, regLog, cancelCalls, sd, spawnsLeft>>
        /\ UNCHANGED <<ctxVars, histVars, sessVars, extVars>>

update_status(es, id, status) ==
    [es EXCEPT ![id].status = status,
               ![id].completed_at = IF status = "Running" THEN @ ELSE TRUE]

TaskUpdateStatus ==
    \E id \in RegIds :
        /\ tasks[id].pc = "update_status"
        /\ entries' = update_status(entries, id, tasks[id].outcome)
        /\ tasks' = [tasks EXCEPT ![id].pc = "done"]
        /\ UNCHANGED <<tokParent, cancelled, spawning, regLog, cancelCalls, sd, spawnsLeft>>
        /\ UNCHANGED <<ctxVars, histVars, sessVars, extVars>>

\* cancel_agent on a registered id: the entry's token is cancelled, the
\* status becomes Killed and completed_at is set, whatever the status was.
cancel_agent(es, id) ==
    [es EXCEPT ![id].status = "Killed", ![id].completed_at = TRUE]

\* dispatch_kill_agent (the kill_agent tool) calling cancel_agent.
KillAgent ==
    \E id \in RegIds :
        /\ Cardinality(cancelCalls \cup {id}) <= MaxKills
        /\ cancelled' = cancel(tokParent, cancelled, entries[id].cancel_token)
        /\ entries' = cancel_agent(entries, id)
        /\ cancelCalls' = cancelCalls \cup {id}
        /\ UNCHANGED <<tasks, tokParent, spawning, regLog, sd, spawnsLeft>>
        /\ UNCHANGED <<ctxVars, histVars, sessVars, extVars>>

\* shutdown_all, first statement: the root token is cancelled.  What follows
\* it, taking the join handles out of the entries and awaiting each for at
\* most 5 seconds, changes nothing the registry shows: the tasks run on as
\* they do at any other time, and an await may time out.
ShutdownCancelRoot ==
    /\ sd = "idle"
    /\ cancelled' = cancel(tokParent, cancelled, RootToken)
    /\ sd' = "awaiting"
    /\ UNCHANGED <<entries, tasks, tokParent, spawning, regLog, cancelCalls, spawnsLeft>>
    /\ UNCHANGED <<ctxVars, histVars, sessVars, extVars>>

\* shutdown_all, last block: every entry still Running is marked Killed.
ShutdownMark ==
    /\ sd = "awaiting"
    /\ entries' = [id \in RegIds |->
                      IF entries[id].status = "Running"
                        THEN [entries[id] EXCEPT !.status = "Killed",
                                                 !.completed_at = TRUE]
                        ELSE entries[id]]
    /\ sd' = "done"
    /\ UNCHANGED <<tasks, tokParent, cancelled, spawning, regLog, cancelCalls, spawnsLeft>>
    /\ UNCHANGED <<ctxVars, histVars, sessVars, extVars>>

\* SpecReg: the registry as a tree.  Spawners register, kill_agent and
\* shutdown_all cancel; the tasks stay in their select!, which takes no part
\* in registering or in cancelling.
RegInit == RegStart(MaxSpawns)

RegNext ==
    \/ ApiSpawn
    \/ DispatchSpawn
    \/ Register
    \/ KillAgent
    \/ ShutdownCancelRoot
    \/ ShutdownMark

SpecReg == RegInit /\ [][RegNext]_vars

\* SpecRegDup: SpecReg with register also called for ids that are taken.
RegDupNext == RegNext \/ RegisterDuplicate

SpecRegDup == RegInit /\ [][RegDupNext]_vars

\* SpecLife: the life cycle of the entries, with the tasks running to their
\* end beside kill_agent and shutdown_all.
LifeInit == RegStart(LifeSpawns)

LifeNext ==
    \/ ApiSpawn
    \/ DispatchSpawn
    \/ Register
    \/ TaskSetResult
    \/ TaskUpdateStatus
    \/ KillAgent
    \/ ShutdownCancelRoot
    \/ ShutdownMark

SpecLife == LifeInit /\ [][LifeNext]_vars

\* A step of the task of entry id.
TaskStep(id) ==
    /\ id \in RegIds
    /\ TaskSetResult \/ TaskUpdateStatus
    /\ tasks'[id] # tasks[id]

\* A task whose token is cancelled is woken and polled, SIGKILL ends the
\* process group so that child.wait() returns, and a task that has left its
\* select! runs on to its end.
TaskProgress(id) ==
    /\ id \in RegIds
    /\ entries[id].cancel_token \in cancelled \/ tasks[id].pc # "select"
    /\ TaskStep(id)

SpecLifeFair == SpecLife /\ \A id \in 1..LifeSpawns : WF_vars(TaskProgress(id))

---------------------------------------------------------------------------
(* shutdown_all with the join handles.  A spawner stores the handle of its *)
(* task in the entry as its last step, after register and tokio::spawn;    *)
(* shutdown_all takes the handles that are stored when it locks the        *)
(* entries.  handles.held are the entries whose join_handle is Some,       *)
(* handles.stored those set_join_handle was called for, handles.before     *)
(* those registered when shutdown_all was called, joining the handles      *)
(* shutdown_all has still to await.                                        *)

\* manager.set_join_handle(&id, handle), the spawner's last call.
SetJoinHandle ==
    /\ \E id \in RegIds \ handles.stored :
          handles' = [handles EXCEPT !.held = @ \cup {id}, !.stored = @ \cup {id}]
    /\ UNCHANGED <<regVars, joining, child, execVars, fsVars, usageLog, auxVars>>
    /\ UNCHANGED <<ctxVars, histVars, sessVars>>

\* shutdown_all is called: the root token is cancelled.
ShutdownCall ==
    /\ sd = "idle"
    /\ cancelled' = cancel(tokParent, cancelled, RootToken)
    /\ sd' = "awaiting"
    /\ handles' = [handles EXCEPT !.before = RegIds]
    /\ UNCHANGED <<entries, tasks, tokParent, spawning, regLog, cancelCalls, spawnsLeft>>
    /\ UNCHANGED <<joining, child, execVars, fsVars, usageLog, auxVars>>
    /\ UNCHANGED <<ctxVars, histVars, sessVars>>

\* shutdown_all, second block: under the lock, every join_handle that is
\* Some is taken out of its entry.
ShutdownCollect ==
    /\ sd = "awaiting"
    /\ sd' = "joining"
    /\ joining' = handles.held
    /\ handles' = [handles EXCEPT !.held = {}]
    /\ UNCHANGED <<entries, tasks, tokParent, cancelled, spawning, regLog,
                   cancelCalls, spawnsLeft>>
    /\ UNCHANGED <<child, execVars, fsVars, usageLog, auxVars>>
    /\ UNCHANGED <<ctxVars, histVars, sessVars>>

\* shutdown_all, the loop: timeout(5 s, handle).await ends when the task
\* has finished or when the 5 seconds have passed, whichever is first.
ShutdownJoin ==
    /\ sd = "joining"
    /\ \E id \in joining :
          /\ tasks[id].pc = "done" \/ tasks[id].pc # "done"
          /\ joining' = joining \ {id}
    /\ UNCHANGED <<regVars, handles, child, execVars, fsVars, usageLog, auxVars>>
    /\ UNCHANGED <<ctxVars, histVars, sessVars>>

\* The last block of shutdown_all on the entries es.
mark_remaining_killed(es) ==
    [id \in 1..Len(es) |->
        IF es[id].status = "Running"
          THEN [es[id] EXCEPT !.status = "Killed", !.completed_at = TRUE]
          ELSE es[id]]

\* shutdown_all, last block after the loop, and its return.
ShutdownReturn ==
    /\ sd = "joining" /\ joining = {}
    /\ entries' = mark_remaining_killed(entries)
    /\ sd' = "done"
    /\ UNCHANGED <<tasks, tokParent, cancelled, spawning, regLog, cancelCalls, spawnsLeft>>
    /\ UNCHANGED <<ctxVars, histVars, sessVars, extVars>>

ShutdownInit == RegStart(LifeSpawns)

ShutdownNext ==
    \/ ApiSpawn
    \/ DispatchSpawn
    \/ Register
    \/ SetJoinHandle
    \/ TaskSetResult
    \/ TaskUpdateStatus
    \/ KillAgent
    \/ ShutdownCall
    \/ ShutdownCollect
    \/ ShutdownJoin
    \/ ShutdownReturn

SpecShutdown == ShutdownInit /\ [][ShutdownNext]_vars

\* C17: when shutdown_all returns, the root token is cancelled, no entry
\* that was registered before the call still holds a join handle, and none
\* of them has status Running.  (That the call returns at all is the
\* progress of ShutdownCollect, ShutdownJoin and ShutdownReturn, none of
\* which waits for a task.)
C17_ShutdownTakesEveryHandle ==
    [][ (sd # "done" /\ sd' = "done") =>
          /\ RootToken \in cancelled'
          /\ handles'.held \cap handles'.before = {}
          /\ \A id \in handles'.before : entries'[id].status # "Running" ]_vars

---------------------------------------------------------------------------
(* Properties of the registry                                              *)

\* C6: whatever the interleaving of register calls, the registry never holds
\* more than max_total entries, no entry is deeper than max_depth, and a
\* register call that would exceed either limit fails.
C6_LimitsNeverExceeded ==
    /\ Len(entries) <= max_total
    /\ \A id \in RegIds : entries[id].depth <= max_depth
    /\ (regLog.len_before >= max_total \/ regLog.depth > max_depth)
          => regLog.error \notin {"none", "ok"}

\* The registry is full, holds an entry at the deepest level allowed, and
\* the last register call was refused for the total.
C6_Witness ==
    /\ Len(entries) = max_total
    /\ \E id \in RegIds : entries[id].depth = max_depth
    /\ regLog.error = "max_total"

\* C7: the status of an entry that is no longer Running never changes again.
C7_TerminalStatusIsFinal ==
    [][\A id \in RegIds :
          entries[id].status # "Running" => entries'[id].status = entries[id].status]_vars

\* C8: every entry whose status is Completed, Failed or Killed has
\* completed_at set and a stored result.
C8_TerminalHasResult ==
    \A id \in RegIds :
        entries[id].status # "Running" =>
            (entries[id].completed_at /\ entries[id].result # "none")

\* C22: in every registry state each entry has depth 0 exactly when it has
\* no parent_id, and otherwise its parent_id names an existing entry and its
\* depth is that entry's depth + 1.
C22_DepthFollowsParent ==
    \A id \in RegIds :
        /\ entries[id].depth = 0 <=> entries[id].parent_id = NoId
        /\ entries[id].parent_id # NoId =>
              /\ entries[id].parent_id \in RegIds
              /\ entries[id].depth = entries[entries[id].parent_id].depth + 1

\* The registry holds a root entry and a child of it, and the last register
\* call, for a parent that is not registered, failed.
C22_Witness ==
    /\ \E id \in RegIds : entries[id].depth = 0
    /\ \E id \in RegIds : entries[id].depth > 0 /\ entries[id].parent_id \in RegIds
    /\ regLog.error = "parent_not_found"

\* The entry and the entries it descends from through parent_id.
RECURSIVE AncestorsOrSelf(_, _)
AncestorsOrSelf(es, id) ==
    IF es[id].parent_id = NoId THEN {id}
    ELSE {id} \cup AncestorsOrSelf(es, es[id].parent_id)

C10_NestedSpawnIsChild ==
    \A id \in RegIds :
        entries[id].spawned_by # NoId =>
            /\ entries[id].parent_id = entries[id].spawned_by
            /\ entries[id].depth = entries[entries[id].spawned_by].depth + 1
            /\ entries[entries[id].spawned_by].cancel_token \in cancelled
                  => entries[id].cancel_token \in cancelled

---------------------------------------------------------------------------
(* The command filter, the safety layer and the shell executor.  A command *)
(* is a sequence of words; a pattern of the blocklist is one word, and it  *)
(* matches a command that holds the word (the patterns of the default      *)
(* blocklist are \bword\b and similar).                                    *)

\* the SafetyLayer::execute calls made on one layer.
MaxExecCalls == 2

\* config.blocked_patterns: (pattern, reason) pairs, in order.
BlockedPatterns ==
    << [pattern |-> "sudo",   reason |-> "privilege"],
       [pattern |-> "reboot", reason |-> "reboot"] >>

Commands ==
    { <<"sudo", "ls">>, <<"sudo", "reboot">>, <<"echo", "hello">>,
      <<"sleep", "60">>, <<"kill", "-9", "$$">> }

pattern_matches(pattern, command) ==
    \E i \in 1..Len(command) : command[i] = pattern

\* RegexSet::matches(command): the indices of the matching patterns.
matches(patterns, command) ==
    {idx \in 1..Len(patterns) : pattern_matches(patterns[idx].pattern, command)}

NotBlocked == [blocked |-> FALSE, reason |-> "", command |-> <<>>]

command_filter_check_NeverBlocks(patterns, command) == NotBlocked

command_filter_check_LastMatch(patterns, command) ==
    LET M == matches(patterns, command)
    IN  IF M = {} THEN NotBlocked
        ELSE [ blocked |-> TRUE,
               reason  |-> patterns[CHOOSE i \in M : \A j \in M : i >= j].reason,
               command |-> command ]

\* CommandFilter::check: the BlockedCommand of the first matching pattern,
\* none when no pattern matches.
command_filter_check(patterns, command) ==
    LET M == matches(patterns, command)
    IN  IF M = {} THEN NotBlocked
        ELSE [ blocked |-> TRUE,
               reason  |-> patterns[CHOOSE i \in M : \A j \in M : i <= j].reason,
               command |-> command ]

\* BlockedCommand::to_json
to_json(b) ==
    <<"{", "blocked", "true", "reason", b.reason, "command">> \o b.command \o <<"}">>

\* The line log_blocked_command formats.
log_entry(b) ==
    <<"timestamp", "blocked", "true", "reason", b.reason, "command">> \o b.command

\* What opening and writing the security log can come to.
LogOutcomes == {"ok", "open_failed", "write_failed"}

\* log_blocked_command: the line is appended; when the file cannot be
\* opened nothing is, and a write_all that fails leaves at most a fragment.
\* Either failure is only warned about.
log_blocked_command(log, b, io) ==
    CASE io = "ok"           -> Append(log, log_entry(b))
      [] io = "open_failed"  -> log
      [] io = "write_failed" -> Append(log, <<"timestamp">>)

\* The ExecResult of a blocked command.
blocked_result(b) ==
    [kind |-> "ok", stdout |-> <<>>, stderr |-> to_json(b),
     exit_code |-> 126, timed_out |-> FALSE]

ErrResult(msg) ==
    [kind |-> "err", stdout |-> <<>>, stderr |-> <<msg>>,
     exit_code |-> NoExitCode, timed_out |-> FALSE]

\* What a command writes to its stdout.
CommandOutput(command) ==
    IF command[1] = "echo" THEN Tail(command) ELSE <<>>

ExitCodes == {0, 1}

\* ExitStatus::code(): the code of a process that exited, none for one that
\* a signal terminated.
status_code(status, code) ==
    IF status = "exited" THEN code ELSE NoExitCode

ExecFrame ==
    /\ UNCHANGED <<regVars, joinVars, child, fsVars, usageLog, auxVars>>
    /\ UNCHANGED <<ctxVars, histVars, sessVars>>

ExecInit ==
    /\ RegIdle
    /\ JoinIdle /\ ChildIdle /\ ExecIdle /\ FsIdle /\ UsageIdle /\ AuxIdle
    /\ cm = NewContextManager
    /\ evalLog = NewEvalLog
    /\ HistIdle
    /\ SessIdle

\* The observer's record when an execute call begins.
LogCall(command, spawned, io) ==
    [ calls      |-> execLog.calls + 1,
      command    |-> command,
      spawned    |-> spawned,
      returned   |-> FALSE,
      result     |-> NoResult,
      log_before |-> secLog,
      log_io     |-> io,
      events     |-> <<>> ]

\* The observer's record when a call returns.
LogReturn(log, result, events) ==
    [log EXCEPT !.returned = TRUE, !.result = result, !.events = events]

\* SafetyLayer::execute up to its first await.  A blocked command is logged
\* and answered at once; an allowed one is handed to execute_shell, which
\* spawns `sh -c command` in a process group of its own, or returns the
\* spawn error.
SafetyExecute ==
    /\ sh.pc = "idle"
    /\ execLog.calls < MaxExecCalls
    /\ \E command \in Commands :
          LET b == command_filter_check(BlockedPatterns, command)
          IN  IF b.blocked
                THEN \E io \in LogOutcomes :
                        /\ secLog' = log_blocked_command(secLog, b, io)
                        /\ execLog' = LogReturn(LogCall(command, FALSE, io),
                                                blocked_result(b), <<>>)
                        /\ UNCHANGED sh
                ELSE \E spawn_ok \in BOOLEAN :
                        /\ UNCHANGED secLog
                        /\ IF spawn_ok
                             THEN /\ sh' = [NoShell EXCEPT !.pc = "wait",
                                                           !.command = command,
                                                           !.events = <<"spawn">>]
                                  /\ execLog' = LogCall(command, TRUE, "none")
                             ELSE /\ UNCHANGED sh
                                  /\ execLog' = LogReturn(LogCall(command, FALSE, "none"),
                                                          ErrResult("spawn"), <<>>)
    /\ ExecFrame

\* timeout(child.wait()) yields Ok(Ok(status)): the process ended in time,
\* by exiting with a code or by a signal.
ShellWaitDone ==
    /\ sh.pc = "wait"
    /\ \E status \in {"exited", "signaled"}, code \in ExitCodes :
          sh' = [sh EXCEPT !.pc = "collect", !.status = status, !.code = code,
                           !.events = Append(@, "wait")]
    /\ UNCHANGED <<secLog, execLog>>
    /\ ExecFrame

\* timeout(child.wait()) yields Ok(Err(e)): execute_shell returns the error.
ShellWaitError ==
    /\ sh.pc = "wait"
    /\ execLog' = LogReturn(execLog, ErrResult("wait"),
                            sh.events \o <<"wait", "return">>)
    /\ sh' = NoShell
    /\ UNCHANGED secLog
    /\ ExecFrame

on_timeout_NoReap(s) ==
    [s EXCEPT !.pc = "collect_timeout", !.events = Append(@, "killpg")]

\* The timeout arm up to its await: SIGKILL to the process group, then
\* child.wait().
on_timeout(s) ==
    [s EXCEPT !.pc = "reap", !.events = Append(@, "killpg")]

\* timeout(child.wait()) yields Err(elapsed).
ShellTimeout ==
    /\ sh.pc = "wait"
    /\ sh' = on_timeout(sh)
    /\ UNCHANGED <<secLog, execLog>>
    /\ ExecFrame

\* `let _ = child.wait().await` returns.
ShellReap ==
    /\ sh.pc = "reap"
    /\ sh' = [sh EXCEPT !.pc = "collect_timeout", !.events = Append(@, "wait")]
    /\ UNCHANGED <<secLog, execLog>>
    /\ ExecFrame

\* The Ok(Ok(status)) arm: both reader tasks are awaited and the result is
\* returned.
ShellReturn ==
    /\ sh.pc = "collect"
    /\ execLog' = LogReturn(execLog,
                     [ kind      |-> "ok",
                       stdout    |-> CommandOutput(sh.command),
                       stderr    |-> <<>>,
                       exit_code |-> status_code(sh.status, sh.code),
                       timed_out |-> FALSE ],
                     sh.events \o <<"collect", "return">>)
    /\ sh' = NoShell
    /\ UNCHANGED secLog
    /\ ExecFrame

\* The timeout arm after the reap: each reader is given 500 ms, and what it
\* has not delivered by then is lost.
ShellReturnTimedOut ==
    /\ sh.pc = "collect_timeout"
    /\ \E got \in BOOLEAN :
          execLog' = LogReturn(execLog,
                        [ kind      |-> "ok",
                          stdout    |-> IF got THEN CommandOutput(sh.command) ELSE <<>>,
                          stderr    |-> <<>>,
                          exit_code |-> NoExitCode,
                          timed_out |-> TRUE ],
                        sh.events \o <<"collect", "return">>)
    /\ sh' = NoShell
    /\ UNCHANGED secLog
    /\ ExecFrame

ExecNext ==
    \/ SafetyExecute
    \/ ShellWaitDone
    \/ ShellWaitError
    \/ ShellTimeout
    \/ ShellReap
    \/ ShellReturn
    \/ ShellReturnTimedOut

SpecExec == ExecInit /\ [][ExecNext]_vars

\* Whether the last execute call was for a command that matches a pattern.
LastCommandMatches ==
    \E idx \in 1..Len(BlockedPatterns) :
        pattern_matches(BlockedPatterns[idx].pattern, execLog.command)

\* What holds of every call, whatever becomes of the log: a command that
\* matches is never run and is answered with the blocked result; a command
\* that matches no pattern leaves the security log as it was.
BlockedNeverRuns ==
    /\ (execLog.calls > 0 /\ LastCommandMatches) =>
          /\ ~execLog.spawned
          /\ sh.pc = "idle"
          /\ execLog.returned
          /\ execLog.result.kind = "ok"
          /\ execLog.result.stdout = <<>>
          /\ \E idx \in matches(BlockedPatterns, execLog.command) :
                execLog.result.stderr =
                    <<"{", "blocked", "true", "reason", BlockedPatterns[idx].reason,
                      "command">> \o execLog.command \o <<"}">>
          /\ execLog.result.exit_code = 126
          /\ execLog.result.timed_out = FALSE
    /\ (execLog.calls > 0 /\ ~LastCommandMatches) => secLog = execLog.log_before

\* The call appended exactly one line, which names the command.
OneLineAppended ==
    /\ Len(secLog) = Len(execLog.log_before) + 1
    /\ SubSeq(secLog, 1, Len(execLog.log_before)) = execLog.log_before
    /\ Len(secLog[Len(secLog)]) > 6
    /\ SubSeq(secLog[Len(secLog)], 7, Len(secLog[Len(secLog)])) = execLog.command

\* C12 as stated: a blocked command is never run, is answered with the
\* blocked result, and every blocked call appends exactly one line to the
\* security log; an allowed command appends nothing.
C12_BlockedNeverRunsOneLogLine ==
    /\ BlockedNeverRuns
    /\ (execLog.calls > 0 /\ LastCommandMatches) => OneLineAppended

\* C12, amended: the same, with exactly one line appended by every blocked
\* call whose log file could be opened and written; a call whose log write
\* failed appends no line (at most a fragment of one).
C12_BlockedNeverRunsLogsWhenWritable ==
    /\ BlockedNeverRuns
    /\ (execLog.calls > 0 /\ LastCommandMatches) =>
          /\ execLog.log_io = "ok" => OneLineAppended
          /\ execLog.log_io = "open_failed" => secLog = execLog.log_before
          /\ execLog.log_io = "write_failed" =>
                /\ Len(secLog) = Len(execLog.log_before) + 1
                /\ Len(secLog[Len(secLog)]) < 7

\* A second blocked call, for a command two patterns match, appended the
\* second line of the log.
C12_Witness ==
    /\ execLog.calls = 2
    /\ execLog.command = <<"sudo", "reboot">>
    /\ execLog.result.exit_code = 126
    /\ execLog.log_io = "ok"
    /\ Len(secLog) = 2
    /\ Len(execLog.log_before) = 1 /\ Len(execLog.log_before[1]) > 6

\* C15: every ExecResult execute_shell returns has a numeric exit code and
\* timed_out = false, or timed_out = true and no exit code.
C15_ExitCodeXorTimedOut ==
    (execLog.returned /\ execLog.spawned /\ execLog.result.kind = "ok") =>
        \/ execLog.result.exit_code # NoExitCode /\ ~execLog.result.timed_out
        \/ execLog.result.exit_code = NoExitCode /\ execLog.result.timed_out

\* The positions of an event in the events of a call.
EventAt(events, e) == {k \in 1..Len(events) : events[k] = e}

\* C16: a call of execute_shell that spawned its child returns, with Ok or
\* with Err, only after child.wait() has returned; when the timeout expired
\* the SIGKILL to the process group precedes that wait; and the readers'
\* output is collected only after it.
C16_ReapedBeforeReturn ==
    (execLog.returned /\ execLog.spawned) =>
        LET e == execLog.events
        IN  /\ EventAt(e, "wait") # {}
            /\ \A w \in EventAt(e, "wait") :
                  /\ \A k \in EventAt(e, "killpg") : k < w
                  /\ \A c \in EventAt(e, "collect") : w < c
                  /\ \A r \in EventAt(e, "return") : w < r
            /\ execLog.result.timed_out => EventAt(e, "killpg") # {}
            /\ execLog.result.kind = "ok" => EventAt(e, "collect") # {}

\* A call that timed out has returned: killed, reaped, collected, in that
\* order.
C16_Witness ==
    /\ execLog.returned /\ execLog.spawned
    /\ execLog.result.timed_out
    /\ execLog.events = <<"spawn", "killpg", "wait", "collect", "return">>

---------------------------------------------------------------------------
(* The filesystem, the workspace guard and file_write.  A path is the      *)
(* sequence of its components below "/"; the filesystem maps the canonical *)
(* path of everything that exists to a directory, a file or a symbolic     *)
(* link (whose target is an absolute path).                                *)

\* the symbolic links one path resolution follows (ELOOP beyond), and the
\* file_write calls of a run.
MaxSymlinks == 2
MaxWrites == 2

Dir              == [kind |-> "dir",     target |-> <<>>, content |-> ""]
File(content)    == [kind |-> "file",    target |-> <<>>, content |-> content]
Symlink(target)  == [kind |-> "symlink", target |-> target, content |-> ""]

\* WorkspaceGuard.canonical_root, which is also config.workspace here.
WorkspaceRoot == <<"W">>

\* Path::parent, for a path that has one: the path without its last
\* component, whatever that component is.
PathParent(path) == SubSeq(path, 1, Len(path) - 1)

\* Path::file_name().unwrap_or_default() as the components it adds when
\* joined: the last component, nothing when that is "..".
FileNamePart(path) ==
    IF path = <<>> \/ path[Len(path)] = ".." THEN <<>> ELSE <<path[Len(path)]>>

\* Path::starts_with: whole components.
starts_with(path, base) ==
    Len(path) >= Len(base) /\ SubSeq(path, 1, Len(base)) = base

\* workspace.join(path_str): an absolute path_str replaces the workspace.
join(base, path_str) ==
    IF path_str.abs THEN path_str.comps ELSE base \o path_str.comps

ResolveError == [err |-> TRUE, at |-> <<>>, exists |-> FALSE]

\* The kernel's path resolution from the canonical directory cur: where the
\* path leads and whether something is there.  Symbolic links are followed,
\* the last component's too; a missing last component in a directory that
\* exists resolves to the place it would take.
RECURSIVE Walk(_, _, _, _)
Walk(f, cur, rest, fuel) ==
    IF rest = <<>> THEN [err |-> FALSE, at |-> cur, exists |-> TRUE]
    ELSE IF f[cur].kind # "dir" THEN ResolveError
    ELSE IF Head(rest) = ".."
      THEN Walk(f, IF cur = <<>> THEN cur ELSE PathParent(cur), Tail(rest), fuel)
    ELSE LET next == Append(cur, Head(rest))
         IN  IF next \notin DOMAIN f
               THEN IF Tail(rest) = <<>>
                      THEN [err |-> FALSE, at |-> next, exists |-> FALSE]
                      ELSE ResolveError
             ELSE IF f[next].kind = "symlink"
               THEN IF fuel = 0 THEN ResolveError
                    ELSE Walk(f, <<>>, f[next].target \o Tail(rest), fuel - 1)
             ELSE Walk(f, next, Tail(rest), fuel)

Resolve(f, path) == Walk(f, <<>>, path, MaxSymlinks)

\* Path::exists
exists(f, path) == ~Resolve(f, path).err /\ Resolve(f, path).exists

\* Path::is_dir
is_dir(f, path) == exists(f, path) /\ f[Resolve(f, path).at].kind = "dir"

\* std::fs::canonicalize: the canonical path of something that exists.
canonicalize(f, path) ==
    IF exists(f, path) THEN Resolve(f, path) ELSE ResolveError

\* What lies outside the workspace.
Outside(f) ==
    [q \in {q \in DOMAIN f : ~starts_with(q, WorkspaceRoot)} |-> f[q]]

\* The filesystem with `node` at the canonical path `at`.
Put(f, at, node) ==
    [q \in DOMAIN f \cup {at} |-> IF q = at THEN node ELSE f[q]]

\* mkdir(2): "ok" with the new filesystem, or the errors create_dir_all
\* tells apart.  A last component that exists, a symbolic link included, is
\* EEXIST.
mkdir(f, path) ==
    LET par == Resolve(f, PathParent(path))
        at  == par.at \o <<path[Len(path)]>>
    IN  IF par.err \/ ~par.exists THEN [res |-> "not_found", fs |-> f]
        ELSE IF f[par.at].kind # "dir" THEN [res |-> "other", fs |-> f]
        ELSE IF path[Len(path)] = ".." \/ at \in DOMAIN f
          THEN [res |-> "other", fs |-> f]
        ELSE [res |-> "ok", fs |-> Put(f, at, Dir)]

\* std::fs::create_dir_all
RECURSIVE create_dir_all(_, _)
create_dir_all(f, path) ==
    IF path = <<>> THEN [res |-> "ok", fs |-> f]
    ELSE LET first == mkdir(f, path)
         IN  IF first.res = "ok" THEN first
             ELSE IF first.res = "other"
               THEN [res |-> IF is_dir(f, path) THEN "ok" ELSE "err", fs |-> f]
             ELSE LET up == create_dir_all(f, PathParent(path))
                  IN  IF up.res # "ok" THEN [res |-> "err", fs |-> up.fs]
                      ELSE LET again == mkdir(up.fs, path)
                           IN  IF again.res = "ok" THEN again
                               ELSE [res |-> IF is_dir(up.fs, path) THEN "ok" ELSE "err",
                                     fs |-> up.fs]

\* tokio::fs::write: creates or truncates the file the path leads to.
fs_write(f, path, content) ==
    LET r == Resolve(f, path)
    IN  IF r.err THEN [res |-> "err", fs |-> f]
        ELSE IF r.exists /\ f[r.at].kind # "file" THEN [res |-> "err", fs |-> f]
        ELSE [res |-> "ok", fs |-> Put(f, r.at, File(content))]

is_write_allowed_NoCanonicalize(f, root, target) ==
    IF starts_with(target, root) THEN "true" ELSE "false"

\* WorkspaceGuard::is_write_allowed: Ok(true), Ok(false) or Err.
is_write_allowed(f, root, target) ==
    IF exists(f, target)
      THEN IF starts_with(canonicalize(f, target).at, root) THEN "true" ELSE "false"
    ELSE IF target = <<>> THEN "err"
    ELSE IF exists(f, PathParent(target))
      THEN IF starts_with(canonicalize(f, PathParent(target)).at
                              \o FileNamePart(target), root)
             THEN "true" ELSE "false"
    ELSE "false"

\* dispatch_file_write: the JSON it returns ("written", or the error) and
\* the filesystem it leaves.
dispatch_file_write(f, ws_root, workspace, path_str, content) ==
    LET full_path == join(workspace, path_str)
        parent    == PathParent(full_path)
        made      == IF full_path = <<>> THEN [res |-> "ok", fs |-> f]
                     ELSE create_dir_all(f, parent)
        canonical_parent == canonicalize(made.fs, parent)
        canonical_target == canonical_parent.at \o FileNamePart(full_path)
    IN  IF made.res # "ok"
          THEN [res |-> "error: failed to create directories", fs |-> made.fs]
        ELSE IF full_path = <<>>
          THEN [res |-> "error: path has no parent directory", fs |-> made.fs]
        ELSE IF canonical_parent.err
          THEN [res |-> "error: failed to resolve path", fs |-> made.fs]
        ELSE IF ~starts_with(canonical_target, ws_root)
          THEN [res |-> "error: outside the workspace", fs |-> made.fs]
        ELSE LET w == fs_write(made.fs, full_path, content)
             IN  IF w.res = "ok" THEN [res |-> "written", fs |-> w.fs]
                                 ELSE [res |-> "error: write", fs |-> w.fs]

\* The machine at the start: the workspace, empty, and beside it a
\* directory with a file.
StartFs ==
    [q \in {<<>>, <<"W">>, <<"O">>, <<"O", "f">>} |->
        IF q = <<"O", "f">> THEN File("old") ELSE Dir]

\* The `path` arguments of file_write calls: relative, with "..", through a
\* link, and absolute.
WritePaths ==
    { [abs |-> FALSE, comps |-> <<"f">>],
      [abs |-> FALSE, comps |-> <<"d", "f">>],
      [abs |-> FALSE, comps |-> <<"..", "e">>],
      [abs |-> FALSE, comps |-> <<"..", "n", "e">>],
      [abs |-> FALSE, comps |-> <<"l">>],
      [abs |-> FALSE, comps |-> <<"l", "e">>],
      [abs |-> FALSE, comps |-> <<"l", "n", "e">>],
      [abs |-> TRUE,  comps |-> <<"O", "f">>] }

\* What a link made in the workspace points to: a directory outside, a file
\* outside, nothing (yet) outside, a directory inside.
LinkTargets == { <<"O">>, <<"O", "f">>, <<"O", "g">>, <<"W", "d">> }

\* The targets is_write_allowed is asked about.
GuardTargets ==
    { <<"W">>, <<"W", "f">>, <<"W", "d", "f">>, <<"W", "..", "e">>,
      <<"W", "l">>, <<"W", "l", "e">>, <<"O", "f">>, <<"W", "x", "y", "z">> }

FsFrame ==
    /\ UNCHANGED <<regVars, joinVars, child, execVars, usageLog, auxVars>>
    /\ UNCHANGED <<ctxVars, histVars, sessVars>>

FsInit ==
    /\ RegIdle
    /\ JoinIdle /\ ChildIdle /\ ExecIdle /\ UsageIdle /\ AuxIdle
    /\ fs = StartFs
    /\ fsLog = NewFsLog
    /\ cm = NewContextManager
    /\ evalLog = NewEvalLog
    /\ HistIdle
    /\ SessIdle

\* A command run in the workspace makes the link W/l (ln -s target l).
FsMakeLink ==
    /\ <<"W", "l">> \notin DOMAIN fs
    /\ \E target \in LinkTargets :
          fs' = Put(fs, <<"W", "l">>, Symlink(target))
    /\ UNCHANGED fsLog
    /\ FsFrame

\* A file_write tool call.
FileWrite ==
    /\ fsLog.writes < MaxWrites
    /\ \E path_str \in WritePaths :
          LET r == dispatch_file_write(fs, WorkspaceRoot, WorkspaceRoot, path_str, "new")
          IN  /\ fs' = r.fs
              /\ fsLog' = [ op |-> "file_write",
                            path |-> join(WorkspaceRoot, path_str),
                            result |-> r.res,
                            landed |-> IF r.res = "written"
                                         THEN Resolve(r.fs, join(WorkspaceRoot, path_str)).at
                                         ELSE <<>>,
                            outside_changed |-> Outside(r.fs) # Outside(fs),
                            writes |-> fsLog.writes + 1 ]
    /\ FsFrame

\* An is_write_allowed call.
GuardCheck ==
    /\ \E target \in GuardTargets :
          fsLog' = [ fsLog EXCEPT
                        !.op = "is_write_allowed",
                        !.path = target,
                        !.result = is_write_allowed(fs, WorkspaceRoot, target),
                        !.landed = <<>>,
                        !.outside_changed = FALSE ]
    /\ UNCHANGED fs
    /\ FsFrame

FsNext ==
    \/ FsMakeLink
    \/ FileWrite
    \/ GuardCheck

SpecFs == FsInit /\ [][FsNext]_vars

\* C13: a file_write call never creates or changes anything outside the
\* workspace root, and a call whose path leads outside the root returns an
\* error.
C13_WriteStaysInWorkspace ==
    fsLog.op = "file_write" =>
        /\ ~fsLog.outside_changed
        /\ fsLog.result = "written" => starts_with(fsLog.landed, WorkspaceRoot)

\* The path the claim tests: canonicalize(t) when t exists, canonicalize of
\* t's parent joined with t's last component when only the parent exists.
GuardedPath(f, t) ==
    IF exists(f, t) THEN canonicalize(f, t).at
    ELSE canonicalize(f, PathParent(t)).at \o FileNamePart(t)

\* C14: is_write_allowed(t) returns true only if that path starts with the
\* canonical workspace root; it returns false when neither t nor t's parent
\* exists, and true for the workspace root itself.
C14_AllowedOnlyInsideRoot ==
    [][ (fsLog'.op = "is_write_allowed" /\ UNCHANGED fs) =>
          LET t == fsLog'.path
          IN  /\ fsLog'.result = "true" =>
                    /\ exists(fs, t) \/ exists(fs, PathParent(t))
                    /\ starts_with(GuardedPath(fs, t), WorkspaceRoot)
              /\ (~exists(fs, t) /\ ~exists(fs, PathParent(t))) => fsLog'.result = "false"
              /\ t = WorkspaceRoot => fsLog'.result = "true" ]_vars

\* The guard was asked about a link in the workspace that points to a file
\* outside, and refused.
C14_Witness ==
    /\ fsLog.op = "is_write_allowed"
    /\ fsLog.path = <<"W", "l">>
    /\ <<"W", "l">> \in DOMAIN fs
    /\ fs[<<"W", "l">>] = Symlink(<<"O", "f">>)
    /\ fsLog.result = "false"

---------------------------------------------------------------------------
(* Tool dispatch.  A tool call is a function name and its JSON arguments;  *)
(* what dispatch_tool_call gives back is a string (a JSON error object or  *)
(* a payload) or a panic.  The text of an error is the sequence of the     *)
(* fragments it is formatted from.                                         *)

\* the longest text, in characters, a fetched page has here, and the
\* largest number of seconds in a sleep request or limit.
MaxBodyChars == 2
MaxSleepSecs == 3

\* serde_json values of an argument: absent, a string, a number.
JMissing == [t |-> "missing", s |-> "", n |-> 0]
JStr(s)  == [t |-> "str", s |-> s, n |-> 0]
JNum(n)  == [t |-> "num", s |-> "", n |-> n]

\* .and_then(|v| v.as_str()) and .and_then(|v| v.as_u64()) are Some.
as_str(v) == v.t = "str"
as_u64(v) == v.t = "num" /\ v.n >= 0

ErrorJson(text) == [kind |-> "string", error |-> TRUE, text |-> text]
Payload(tag)    == [kind |-> "string", error |-> FALSE, text |-> <<tag>>]
Panicked        == [kind |-> "panic", error |-> FALSE, text |-> <<>>]

MissingArg(fn, arg) ==
    ErrorJson(<<fn, ": missing or invalid '", arg, "' argument">>)

NotAvailable == <<"Sub-agent tools ", "not available">>

\* A page is the sequence of the UTF-8 widths of its characters.
RECURSIVE ByteLen(_)
ByteLen(content) ==
    IF content = <<>> THEN 0 ELSE Head(content) + ByteLen(Tail(content))

\* str::is_char_boundary
is_char_boundary(content, i) ==
    \E k \in 0..Len(content) : ByteLen(SubSeq(content, 1, k)) = i

\* maybe_truncate: &content[..limit] panics off a character boundary.
maybe_truncate(content, max_length) ==
    IF as_u64(max_length) /\ ByteLen(content) > max_length.n
      THEN IF is_char_boundary(content, max_length.n)
             THEN Payload("truncated") ELSE Panicked
      ELSE Payload("content")

\* SleepState of a parsed request, or the error.
SleepOk(mode, secs, agent_id, max_duration) ==
    [ok |-> TRUE, err |-> "", mode |-> mode, secs |-> secs,
     agent_id |-> agent_id, max_duration |-> max_duration]
SleepErr(msg) ==
    [ok |-> FALSE, err |-> msg, mode |-> "", secs |-> 0,
     agent_id |-> "", max_duration |-> 0]

Min(a, b) == IF a <= b THEN a ELSE b

\* parse_sleep_args, the match on the mode: the mode and the seconds
\* requested (max_duration holds them until they are clamped), or the error.
sleep_request(args, max_sleep_duration_secs) ==
    IF ~as_str(args["mode"]) THEN SleepErr("sleep: missing required 'mode' field")
    ELSE IF args["mode"].s = "timer"
      THEN IF ~as_u64(args["duration_secs"])
             THEN SleepErr("sleep: timer mode requires 'duration_secs' (positive integer)")
           ELSE IF args["duration_secs"].n = 0
             THEN SleepErr("sleep: duration_secs must be greater than 0")
           ELSE SleepOk("timer", args["duration_secs"].n, "", args["duration_secs"].n)
    ELSE IF args["mode"].s = "event"
      THEN IF ~as_str(args["agent_id"])
             THEN SleepErr("sleep: event mode requires 'agent_id' (string)")
           ELSE IF args["agent_id"].s = ""
             THEN SleepErr("sleep: agent_id must not be empty")
           ELSE SleepOk("event", 0, args["agent_id"].s, max_sleep_duration_secs)
    ELSE IF args["mode"].s = "manual"
      THEN SleepOk("manual", 0, "", max_sleep_duration_secs)
    ELSE SleepErr("sleep: unknown mode")

parse_sleep_args_NoClamp(args, max_sleep_duration_secs) ==
    sleep_request(args, max_sleep_duration_secs)

\* parse_sleep_args: the effective duration is the requested one clamped to
\* the configured maximum.
parse_sleep_args(args, max_sleep_duration_secs) ==
    LET r == sleep_request(args, max_sleep_duration_secs)
    IN  IF r.ok
          THEN [r EXCEPT !.max_duration = Min(@, max_sleep_duration_secs)]
          ELSE r

\* config.max_sleep_duration_secs, 3600 without a config; here the bound.
DefaultMaxSleep == MaxSleepSecs

\* The dispatch_* helpers.  env is what the call meets: whether a manager
\* and a config were passed, whether the operation behind the tool succeeds,
\* and the page a fetch receives.
dispatch_shell_exec(call, env) ==
    IF ~as_str(call.args["command"]) THEN MissingArg("shell_exec", "command")
    ELSE IF env.ok THEN Payload("exec_result")
    ELSE ErrorJson(<<"shell_exec failed: ", "e">>)

dispatch_file_read(call, env) ==
    IF ~as_str(call.args["path"]) THEN MissingArg("file_read", "path")
    ELSE IF env.ok THEN Payload("content")
    ELSE ErrorJson(<<"file_read: ", "e">>)

\* dispatch_file_write, its arguments; what it does to the filesystem is
\* dispatch_file_write above.
file_write_args(call, env) ==
    IF ~as_str(call.args["path"]) THEN MissingArg("file_write", "path")
    ELSE IF ~as_str(call.args["content"]) THEN MissingArg("file_write", "content")
    ELSE IF env.ok THEN Payload("written_bytes")
    ELSE ErrorJson(<<"file_write: ", "e">>)

dispatch_spawn_llm_session(call, env) ==
    IF ~env.manager THEN ErrorJson(NotAvailable)
    ELSE IF ~env.config THEN ErrorJson(NotAvailable \o <<" (no config)">>)
    ELSE IF ~as_str(call.args["goal"]) THEN MissingArg("spawn_llm_session", "goal")
    ELSE IF env.ok THEN Payload("spawned")
    ELSE ErrorJson(<<"spawn_llm_session: ", "e">>)

dispatch_spawn_background_task(call, env) ==
    IF ~env.manager THEN ErrorJson(NotAvailable)
    ELSE IF ~env.config THEN ErrorJson(NotAvailable \o <<" (no config)">>)
    ELSE IF ~as_str(call.args["command"])
      THEN MissingArg("spawn_background_task", "command")
    ELSE IF env.ok THEN Payload("spawned")
    ELSE ErrorJson(<<"spawn_background_task: ", "e">>)

dispatch_agent_status(call, env) ==
    IF ~env.manager THEN ErrorJson(NotAvailable)
    ELSE IF ~as_str(call.args["agent_id"]) THEN Payload("status_list")
    ELSE IF env.ok THEN Payload("status")
    ELSE ErrorJson(<<"Agent not found: ", call.args["agent_id"].s>>)

dispatch_agent_result(call, env) ==
    IF ~env.manager THEN ErrorJson(NotAvailable)
    ELSE IF ~as_str(call.args["agent_id"]) THEN MissingArg("agent_result", "agent_id")
    ELSE IF env.ok THEN Payload("result")
    ELSE ErrorJson(<<"No result available">>)

dispatch_kill_agent(call, env) ==
    IF ~env.manager THEN ErrorJson(NotAvailable)
    ELSE IF ~as_str(call.args["agent_id"]) THEN MissingArg("kill_agent", "agent_id")
    ELSE IF env.ok THEN Payload("killed")
    ELSE ErrorJson(<<"Agent not found">>)

dispatch_write_stdin(call, env) ==
    IF ~env.manager THEN ErrorJson(NotAvailable)
    ELSE IF ~as_str(call.args["agent_id"]) THEN MissingArg("write_stdin", "agent_id")
    ELSE IF ~as_str(call.args["data"]) THEN MissingArg("write_stdin", "data")
    ELSE IF env.ok THEN Payload("written_bytes")
    ELSE ErrorJson(<<"write_stdin: ", "e">>)

\* dispatch_web_fetch and fetch_url.
dispatch_web_fetch(call, env) ==
    IF ~as_str(call.args["url"]) THEN MissingArg("web_fetch", "url")
    ELSE IF ~env.ok THEN ErrorJson(<<"web_fetch: ", "e">>)
    ELSE maybe_truncate(env.body, call.args["max_length"])

dispatch_web_search(call, env) ==
    IF ~as_str(call.args["query"]) THEN MissingArg("web_search", "query")
    ELSE IF env.ok THEN Payload("results")
    ELSE ErrorJson(<<"web_search: ", "e">>)

dispatch_sleep(call, env) ==
    LET state == parse_sleep_args(call.args, DefaultMaxSleep)
    IN  IF state.ok THEN Payload("sleep_requested") ELSE ErrorJson(<<state.err>>)

dispatch_flag_discovery(call, env) ==
    IF ~as_str(call.args["title"]) THEN MissingArg("flag_discovery", "title")
    ELSE IF ~as_str(call.args["description"])
      THEN MissingArg("flag_discovery", "description")
    ELSE IF env.ok THEN Payload("flagged")
    ELSE ErrorJson(<<"flag_discovery: ", "e">>)

\* dispatch_tool_call: the match on the function name.
dispatch_tool_call(call, env) ==
    CASE call.fn_name = "shell_exec"            -> dispatch_shell_exec(call, env)
      [] call.fn_name = "file_read"             -> dispatch_file_read(call, env)
      [] call.fn_name = "file_write"            -> file_write_args(call, env)
      [] call.fn_name = "spawn_llm_session"     -> dispatch_spawn_llm_session(call, env)
      [] call.fn_name = "spawn_background_task" -> dispatch_spawn_background_task(call, env)
      [] call.fn_name = "agent_status"          -> dispatch_agent_status(call, env)
      [] call.fn_name = "agent_result"          -> dispatch_agent_result(call, env)
      [] call.fn_name = "kill_agent"            -> dispatch_kill_agent(call, env)
      [] call.fn_name = "write_stdin"           -> dispatch_write_stdin(call, env)
      [] call.fn_name = "web_fetch"             -> dispatch_web_fetch(call, env)
      [] call.fn_name = "web_search"            -> dispatch_web_search(call, env)
      [] call.fn_name = "sleep"                 -> dispatch_sleep(call, env)
      [] call.fn_name = "flag_discovery"        -> dispatch_flag_discovery(call, env)
      [] OTHER -> ErrorJson(<<"Unknown tool: ", call.fn_name>>)

\* The arguments each tool reads, the required ones first.
ArgsOf(fn) ==
    CASE fn \in {"shell_exec", "spawn_background_task"} -> <<"command">>
      [] fn = "file_read"         -> <<"path">>
      [] fn = "file_write"        -> <<"path", "content">>
      [] fn = "spawn_llm_session" -> <<"goal">>
      [] fn \in {"agent_status", "agent_result", "kill_agent"} -> <<"agent_id">>
      [] fn = "write_stdin"       -> <<"agent_id", "data">>
      [] fn = "web_fetch"         -> <<"url", "max_length">>
      [] fn = "web_search"        -> <<"query">>
      [] fn = "sleep"             -> <<"mode", "duration_secs", "agent_id">>
      [] fn = "flag_discovery"    -> <<"title", "description">>
      [] OTHER                    -> <<>>

\* The arguments a tool requires (agent_status and the limits are optional).
RequiredOf(fn) ==
    CASE fn = "agent_status" -> <<>>
      [] fn = "web_fetch"    -> <<"url">>
      [] fn = "sleep"        -> <<"mode">>
      [] OTHER               -> ArgsOf(fn)

OrchestrationTools ==
    {"spawn_llm_session", "spawn_background_task", "agent_status",
     "agent_result", "kill_agent", "write_stdin"}

KnownTools ==
    OrchestrationTools \cup
    {"shell_exec", "file_read", "file_write", "web_fetch", "web_search",
     "sleep", "flag_discovery"}

ArgNames ==
    {"command", "path", "content", "goal", "agent_id", "data", "url",
     "max_length", "query", "mode", "duration_secs", "title", "description"}

\* The values the model sends for an argument.
ValuesOf(arg) ==
    CASE arg = "mode" ->
            {JMissing, JNum(1), JStr("timer"), JStr("event"), JStr("manual"),
             JStr("hibernate")}
      [] arg = "duration_secs" ->
            {JMissing, JStr("x")} \cup {JNum(n) : n \in 0..(MaxSleepSecs + 1)}
      [] arg = "max_length"    -> {JMissing} \cup {JNum(n) : n \in 0..MaxBodyChars}
      [] arg = "agent_id"      -> {JMissing, JNum(1), JStr(""), JStr("a1")}
      [] OTHER                 -> {JMissing, JNum(1), JStr("x")}

SeqRange(q) == {q[i] : i \in 1..Len(q)}

\* The calls of a tool, with every choice of its arguments.
ToolCallsOf(fn) ==
    { [fn_name |-> fn,
       args |-> [n \in ArgNames |-> IF n \in DOMAIN g THEN g[n] ELSE JMissing]] :
        g \in { g \in [SeqRange(ArgsOf(fn)) -> UNION {ValuesOf(n) : n \in ArgNames}] :
                  \A n \in DOMAIN g : g[n] \in ValuesOf(n) } }

ToolCalls == UNION {ToolCallsOf(fn) : fn \in KnownTools \cup {"bogus"}}

\* Pages of up to MaxBodyChars characters, each one or two bytes wide.
Bodies == UNION {[1..k -> {1, 2}] : k \in 1..MaxBodyChars}

\* What a call can meet.  Only the orchestration tools look at the manager,
\* only the spawners at the config, only a fetch at the page, and sleep at
\* nothing but its arguments.
EnvsOf(call) ==
    { [manager |-> m, config |-> c, ok |-> o, body |-> b] :
        m \in IF call.fn_name \in OrchestrationTools THEN BOOLEAN ELSE {FALSE},
        c \in IF call.fn_name \in {"spawn_llm_session", "spawn_background_task"}
               THEN BOOLEAN ELSE {FALSE},
        o \in IF call.fn_name \in KnownTools \ {"sleep"} THEN BOOLEAN ELSE {TRUE},
        b \in IF call.fn_name = "web_fetch" THEN Bodies ELSE {<<1>>} }

ToolInit ==
    /\ RegIdle
    /\ JoinIdle /\ ChildIdle /\ ExecIdle /\ FsIdle /\ UsageIdle
    /\ toolLog = NoToolLog
    /\ LoopIdle /\ StdioIdle /\ IoIdle
    /\ cm = NewContextManager
    /\ evalLog = NewEvalLog
    /\ HistIdle
    /\ SessIdle

ToolFrame ==
    /\ UNCHANGED <<regVars, joinVars, child, execVars, fsVars, usageLog, loopVars,
                   stdio, ioVars>>
    /\ UNCHANGED <<ctxVars, histVars, sessVars>>

\* The session dispatches one tool call.
ToolDispatch ==
    /\ \E call \in ToolCalls : \E env \in EnvsOf(call) :
          toolLog' = [ op |-> "dispatch_tool_call", call |-> call,
                       manager |-> env.manager, max_sleep |-> DefaultMaxSleep,
                       result |-> dispatch_tool_call(call, env) ]
    /\ ToolFrame

\* parse_sleep_args called with a configured maximum.
SleepParse ==
    /\ \E call \in ToolCallsOf("sleep"), max \in 1..MaxSleepSecs :
          toolLog' = [ op |-> "parse_sleep_args", call |-> call,
                       manager |-> FALSE, max_sleep |-> max,
                       result |-> parse_sleep_args(call.args, max) ]
    /\ ToolFrame

\* the longest custom blocklist.
MaxPatterns == 2

\* The (pattern, reason) pairs blocklists are built from: the defaults and a
\* custom pair whose pattern is one of the defaults'.
PatternPool ==
    SeqRange(BlockedPatterns) \cup {[pattern |-> "sudo", reason |-> "custom block"]}

\* CommandFilter::from_defaults and CommandFilter::new(custom).
Blocklists ==
    {BlockedPatterns} \cup UNION {[1..k -> PatternPool] : k \in 0..MaxPatterns}

\* CommandFilter::check on a filter built from any blocklist.
FilterCheck ==
    /\ \E patterns \in Blocklists, command \in Commands \cup {<<>>} :
          toolLog' = [ op |-> "check",
                       call |-> [patterns |-> patterns, command |-> command],
                       manager |-> FALSE, max_sleep |-> 0,
                       result |-> command_filter_check(patterns, command) ]
    /\ ToolFrame

ToolNext ==
    \/ ToolDispatch
    \/ SleepParse
    \/ FilterCheck

SpecTools == ToolInit /\ [][ToolNext]_vars

Contains(text, fragment) == \E i \in 1..Len(text) : text[i] = fragment

\* C23: dispatch_tool_call returns a string for every call and never
\* panics; an unknown function name gives the error "Unknown tool: <name>",
\* a missing or ill-typed required argument a JSON error, and an
\* orchestration tool called without a manager an error containing
\* "not available".
C23_AlwaysReturnsString ==
    toolLog.op = "dispatch_tool_call" =>
        LET call == toolLog.call
            res  == toolLog.result
        IN  /\ res.kind = "string"
            /\ call.fn_name \notin KnownTools =>
                  res = ErrorJson(<<"Unknown tool: ", call.fn_name>>)
            /\ (\E n \in SeqRange(RequiredOf(call.fn_name)) : ~as_str(call.args[n]))
                  => res.error
            /\ (call.fn_name \in OrchestrationTools /\ ~toolLog.manager) =>
                  res.error /\ Contains(res.text, "not available")

\* C29: parse_sleep_args returns max_duration = min(duration_secs,
\* max_sleep_duration_secs) for a timer request and max_sleep_duration_secs
\* for an event or manual request, and rejects a timer request whose
\* duration_secs is missing or 0, an event request whose agent_id is missing
\* or empty, and an unknown mode.
C29_SleepClampedToMax ==
    toolLog.op = "parse_sleep_args" =>
        LET a   == toolLog.call.args
            r   == toolLog.result
            max == toolLog.max_sleep
            timer  == a["mode"] = JStr("timer")
            event  == a["mode"] = JStr("event")
            manual == a["mode"] = JStr("manual")
            secs   == a["duration_secs"]
        IN  /\ (timer /\ secs.t = "num" /\ secs.n > 0) =>
                  /\ r.ok
                  /\ r.max_duration = (IF secs.n <= max THEN secs.n ELSE max)
            /\ (timer /\ (secs.t = "missing" \/ secs = JNum(0))) => ~r.ok
            /\ (event /\ a["agent_id"].t = "str" /\ a["agent_id"].s # "") =>
                  r.ok /\ r.max_duration = max
            /\ (event /\ (a["agent_id"].t = "missing" \/ a["agent_id"] = JStr(""))) => ~r.ok
            /\ manual => r.ok /\ r.max_duration = max
            /\ (a["mode"].t = "str" /\ ~timer /\ ~event /\ ~manual) => ~r.ok

\* A timer request for more seconds than the maximum was accepted, with the
\* maximum as its max_duration and the requested seconds in its mode.
C29_Witness ==
    /\ toolLog.op = "parse_sleep_args"
    /\ toolLog.call.args["mode"] = JStr("timer")
    /\ toolLog.call.args["duration_secs"].n > toolLog.max_sleep
    /\ toolLog.result.ok
    /\ toolLog.result.max_duration = toolLog.max_sleep
    /\ toolLog.result.secs > toolLog.result.max_duration

\* C24: check(c) returns none when no pattern matches c, the empty command
\* against the default blocklist included, and otherwise the reason of the
\* first pattern, in construction order, that matches c, with c unchanged.
C24_FirstMatchingReason ==
    toolLog.op = "check" =>
        LET patterns == toolLog.call.patterns
            c        == toolLog.call.command
            res      == toolLog.result
            hits     == {i \in 1..Len(patterns) : pattern_matches(patterns[i].pattern, c)}
        IN  /\ hits = {} => ~res.blocked
            /\ (patterns = BlockedPatterns /\ c = <<>>) => ~res.blocked
            /\ hits # {} =>
                  /\ res.blocked
                  /\ res.command = c
                  /\ \E i \in hits :
                        /\ \A j \in hits : i <= j
                        /\ res.reason = patterns[i].reason

\* A command matched two patterns of a custom blocklist that give different
\* reasons, and the first one's reason came back.
C24_Witness ==
    /\ toolLog.op = "check"
    /\ Len(toolLog.call.patterns) = 2
    /\ toolLog.call.patterns[1].reason # toolLog.call.patterns[2].reason
    /\ \A i \in 1..2 :
          pattern_matches(toolLog.call.patterns[i].pattern, toolLog.call.command)
    /\ toolLog.result.blocked
    /\ toolLog.result.reason = toolLog.call.patterns[1].reason

---------------------------------------------------------------------------
(* The turn loop's between-turn points: pause, shutdown, sleep, wind-down.  *)

\* Every invocation the session appended has its tool-response.
AllAnswered ==
    \A i \in (session.base + 1)..Len(messages) :
        IsInvoking(messages[i]) =>
            \A k \in 1..Len(messages[i].calls) :
                ResponsesTo(messages, messages[i].calls[k].call_id) # {}

\* C25: pauses occur between turns only.  The session is never Paused
\* between the start of a model stream and the append of the turn's last
\* tool-response; once Paused, it appends nothing, starts no stream and
\* dispatches no tool until the pause flag is cleared or shutdown is set,
\* and then it either starts the next turn (shutdown clear) or ends.
C25_PausedOnlyBetweenTurns ==
    [][ /\ pc' = "paused" =>
              /\ pc \notin {"stream", "tools", "between"}
              /\ pending' = <<>>
              /\ AllAnswered'
        /\ pc \in {"paused", "woken"} =>
              /\ messages' = messages /\ pending' = pending /\ cm' = cm
              /\ pc' \notin {"tools", "between"}
        /\ (pc = "paused" /\ pc' # "paused") =>
              /\ ~pause.flag \/ shutdown
              /\ pc' = "woken" /\ turn' = turn
        /\ (pc = "woken" /\ pc' # "woken") =>
              \/ ~shutdown /\ pc' = "stream" /\ turn' = turn + 1
              \/ shutdown /\ pc' = "done" /\ session'.reason = "UserShutdown"
      ]_vars

\* After a turn with tool calls the session paused, the operator resumed,
\* and the session has left the spin-wait with the shutdown flag clear.
C25_Witness ==
    /\ pc = "woken"
    /\ pause.some /\ ~pause.flag /\ ~shutdown
    /\ turn >= 1
    /\ Len(messages) > session.base
    /\ IsTool(messages[Len(messages)])

\* C26: with the shutdown flag set, the between-turn check ends the session
\* with UserShutdown, a paused session leaves its wait and ends the same
\* way, and no model stream is started; and, the stream and the tool calls
\* in progress finishing, a session whose flag is set eventually returns.
C26_ShutdownEndsSession ==
    /\ [][ shutdown =>
             /\ (pc = "top" /\ pc' # "top") =>
                   (pc' = "done" /\ session'.reason = "UserShutdown")
             /\ (pc = "paused" /\ pc' # "paused") => pc' = "woken"
             /\ (pc = "woken" /\ pc' # "woken") =>
                   (pc' = "done" /\ session'.reason = "UserShutdown")
             /\ (pc' = "stream" => pc = "stream")
             /\ turn' = turn
         ]_vars
    /\ (shutdown ~> pc \in {"done", "exited"})

\* The flag was set while the session was paused, and the session ended
\* with UserShutdown with the pause flag still set.
C26_Witness ==
    /\ pc = "done" /\ session.reason = "UserShutdown"
    /\ shutdown /\ pause.some /\ pause.flag
    /\ turn >= 1

\* C28: after a turn in which a tool result was a sleep_requested marker,
\* no model call is started and no turn is counted until a wake condition
\* has occurred.
C28_SleepsUntilWake ==
    [][ loopLog.sleep_requested =>
            /\ turn' = turn
            /\ (pc' = "stream" => pc = "stream") ]_vars

\* C30: a session returns ContextFull only after a wind-down system message
\* was appended in that session, and with at least one model call made
\* between that message and the return.
C30_WindDownBeforeRestart ==
    (pc = "done" /\ session.reason = "ContextFull") =>
        /\ loopLog.wind_down_turn > 0
        /\ \E i \in (session.base + 1)..Len(messages) : messages[i] = WindDownMessage
        /\ turn > loopLog.wind_down_turn

\* The session returned ContextFull on the turn after its wind-down.
C30_Witness ==
    /\ pc = "done" /\ session.reason = "ContextFull"
    /\ loopLog.wind_down_turn > 0
    /\ turn = loopLog.wind_down_turn + 1

---------------------------------------------------------------------------
(* SpecStdin: write_to_stdin calls of several tasks on the entries of       *)
(* background processes, beside set_stdin and the registry's other          *)
(* operations.  Entries are never removed from the registry.               *)

\* The lock after the block that takes the handle: the guard is dropped at
\* the end of the block, before the write is awaited.
lock_after_take(writer) == NoHolder

stdin_available_Cloned(handle, id) ==
    id \in StdinIds /\ handle[id] \in {"stored", "taken"}

\* entries.get_mut(id).and_then(|e| e.stdin_handle.take()): whether there
\* is a handle to take.
stdin_available(handle, id) == id \in StdinIds /\ handle[id] = "stored"

stdin_after_write_OnlyOnSuccess(outcome) ==
    IF outcome = "ok" THEN "stored" ELSE "dropped"

\* entry.stdin_handle = Some(stdin), "regardless of write outcome".
stdin_after_write(outcome) == "stored"

\* The match on write_result.
write_result(outcome) == IF outcome = "ok" THEN "ok" ELSE "io_error"

StdinFrame ==
    /\ UNCHANGED <<regVars, joinVars, child, execVars, fsVars, usageLog, toolLog,
                   loopVars, ioVars>>
    /\ UNCHANGED <<ctxVars, histVars, sessVars>>

StdinInit ==
    /\ RegIdle
    /\ JoinIdle /\ ChildIdle /\ ExecIdle /\ FsIdle /\ UsageIdle
    /\ toolLog = NoToolLog /\ LoopIdle /\ StdioIdle /\ IoIdle
    /\ cm = NewContextManager
    /\ evalLog = NewEvalLog
    /\ HistIdle
    /\ SessIdle

\* spawn_background_process hands the child's stdin to the registry.
SetStdin ==
    /\ stdio.lock = NoHolder
    /\ \E id \in StdinIds :
          /\ stdio.handle[id] = "none"
          /\ stdio' = [stdio EXCEPT !.handle[id] = "stored"]
    /\ StdinFrame

\* write_to_stdin, first block: under the lock the handle is taken out of
\* the entry; with no entry or no handle the call returns its error.
WriteTake ==
    /\ stdio.lock = NoHolder
    /\ stdio.calls < MaxStdinWrites
    /\ \E k \in Writers, id \in StdinIds \cup {StdinEntries + 1} :
          /\ stdio.w[k].pc = "idle"
          /\ stdio' =
               IF stdin_available(stdio.handle, id)
                 THEN [stdio EXCEPT !.handle[id] = "taken",
                                    !.lock = lock_after_take(k),
                                    !.w[k] = [pc |-> "writing", id |-> id,
                                              result |-> "none",
                                              sent |-> FALSE, tail |-> FALSE],
                                    !.calls = @ + 1]
                 ELSE [stdio EXCEPT !.w[k] = [pc |-> "returned", id |-> id,
                                              result |-> "no_handle",
                                              sent |-> FALSE, tail |-> FALSE],
                                    !.calls = @ + 1]
    /\ StdinFrame

\* stdin.write_all(data).await hands a piece of the data to the pipe; the
\* call holds the handle and not the lock.
WriteChunk ==
    /\ \E k \in Writers :
          /\ stdio.w[k].pc = "writing"
          /\ stdio' = [stdio EXCEPT
                         !.mixed = @ \/ (stdio.w[k].sent /\ ~stdio.w[k].tail),
                         !.w = [j \in Writers |->
                                  IF j = k
                                    THEN [stdio.w[j] EXCEPT !.sent = TRUE,
                                                            !.tail = TRUE]
                                  ELSE IF stdio.w[j].id = stdio.w[k].id
                                    THEN [stdio.w[j] EXCEPT !.tail = FALSE]
                                  ELSE stdio.w[j]]]
    /\ StdinFrame

\* write_all has completed, with Ok or with an I/O error: under the lock
\* the handle is put back, and the call returns.
WritePutBack ==
    /\ \E k \in Writers, outcome \in {"ok", "err"} :
          /\ stdio.w[k].pc = "writing"
          /\ stdio.lock \in {NoHolder, k}
          /\ stdio' = [stdio EXCEPT !.handle[stdio.w[k].id] = stdin_after_write(outcome),
                                    !.lock = NoHolder,
                                    !.w[k].pc = "returned",
                                    !.w[k].result = write_result(outcome)]
    /\ StdinFrame

\* The caller goes on; it may call write_to_stdin again.
WriteDone ==
    /\ \E k \in Writers :
          /\ stdio.w[k].pc = "returned"
          /\ stdio' = [stdio EXCEPT !.w[k].pc = "idle"]
    /\ StdinFrame

\* Another operation of the registry (get_status, register, read_output of
\* another entry) locks the entries while a write is awaited.
RegistryOp ==
    /\ stdio.lock = NoHolder
    /\ \E k \in Writers : stdio.w[k].pc = "writing"
    /\ ~stdio.overlapped
    /\ stdio' = [stdio EXCEPT !.overlapped = TRUE]
    /\ StdinFrame

StdinNext ==
    \/ WriteChunk
    \/ SetStdin
    \/ WriteTake
    \/ WritePutBack
    \/ WriteDone
    \/ RegistryOp

SpecStdin == StdinInit /\ [][StdinNext]_vars

\* C27: no write_to_stdin call holds the entries lock while it writes, so
\* the registry's other operations can run meanwhile; and when a write
\* finishes, with Ok or with an I/O error, the handle is back in the entry:
\* a write to that entry that begins next finds it.
C27_HandleBackAfterWrite ==
    [][ /\ \A k \in Writers :
              stdio.w[k].pc = "writing" => stdio.lock = NoHolder
        /\ \A k \in Writers :
              ( /\ stdio.w[k].pc = "writing"
                /\ stdio'.w[k].pc = "returned" ) =>
                  /\ stdio'.w[k].result \in {"ok", "io_error"}
                  /\ stdio'.handle[stdio.w[k].id] = "stored"
                  /\ stdin_available(stdio'.handle, stdio.w[k].id)
                  /\ stdio'.lock = NoHolder
      ]_vars

\* A write to entry 1 ended with an I/O error, and the next write to the
\* same entry has taken the handle and is being awaited, while another
\* registry operation has run during a write.
C27_Witness ==
    /\ stdio.w[1].pc = "returned" /\ stdio.w[1].result = "io_error"
    /\ stdio.w[1].id = 1
    /\ stdio.w[2].pc = "writing" /\ stdio.w[2].id = 1
    /\ stdio.handle[1] = "taken"
    /\ stdio.overlapped

---------------------------------------------------------------------------
(* Masking rounds: which tool-responses a round replaces.                  *)

\* The messages the last round replaced.
ReplacedInRound == {i \in 1..Len(maskLog.before) : maskLog.after[i] # maskLog.before[i]}

\* The tool-responses that no round had replaced when the last round began:
\* their content is still what the tool returned.
UnmaskedBefore ==
    {i \in 1..Len(maskLog.before) :
        /\ IsTool(maskLog.before[i])
        /\ maskLog.times[i] = (IF i \in ReplacedInRound THEN 1 ELSE 0)}

UnmarkedBefore ==
    {i \in 1..Len(maskLog.before) :
        /\ IsTool(maskLog.before[i])
        /\ ~(/\ Len(maskLog.before[i].content) > 0
             /\ maskLog.before[i].content[1] = "["
             /\ MASKED_MARKER \in SeqRange(maskLog.before[i].content))}

---------------------------------------------------------------------------
(* The monitor task of a background process after a cancellation.          *)

\* The task of entry id has stored the result "killed" after SIGKILL to the
\* process group and the reaping wait, and has then set the status Killed.
EndedKilled(id) ==
    /\ tasks[id].pc = "done"
    /\ select_events(tasks[id].outcome) = <<"killpg", "wait">>
    /\ entries[id].result = "killed"
    /\ entries[id].status = "Killed"

---------------------------------------------------------------------------
(* The output ring buffer of a background process.                         *)

OutFrame ==
    /\ UNCHANGED <<regVars, joinVars, child, execVars, fsVars, usageLog, toolLog,
                   loopVars, stdio, limiter>>
    /\ UNCHANGED <<ctxVars, histVars, sessVars>>

\* The buffer after k lines of stdout and nothing else.
StdoutOnly(k) == [i \in 1..k |-> Line("stdout", i)]

\* The lines the process had written when the run begins: none, or stdout
\* lines up to two short of the capacity.
Prefills == {0, OUTPUT_BUFFER_CAPACITY - 2}

OutInit ==
    /\ RegIdle
    /\ JoinIdle /\ ChildIdle /\ ExecIdle /\ FsIdle /\ UsageIdle
    /\ toolLog = NoToolLog /\ LoopIdle /\ StdioIdle
    /\ limiter = NoLimiter
    /\ \E k \in Prefills :
          outbuf = [NewOutput EXCEPT !.buf = StdoutOnly(k), !.arrived = k]
    /\ cm = NewContextManager
    /\ evalLog = NewEvalLog
    /\ HistIdle
    /\ SessIdle

push_line_EvictNewest(buf, line) ==
    Append(IF Len(buf) >= OUTPUT_BUFFER_CAPACITY
             THEN SubSeq(buf, 1, Len(buf) - 1) ELSE buf, line)

push_line_EvictLate(buf, line) ==
    Append(IF Len(buf) > OUTPUT_BUFFER_CAPACITY THEN Tail(buf) ELSE buf, line)

\* A reader task's critical section: pop_front when the buffer is at its
\* capacity, then push_back.
push_line(buf, line) ==
    Append(IF Len(buf) >= OUTPUT_BUFFER_CAPACITY THEN Tail(buf) ELSE buf, line)

read_output_Head(buf, tail_lines) ==
    SubSeq(buf, 1, Min(tail_lines, Len(buf)))

\* read_output: skip len.saturating_sub(tail_lines) lines and clone the rest.
read_output(buf, tail_lines) ==
    LET len   == Len(buf)
        start == IF tail_lines >= len THEN 0 ELSE len - tail_lines
    IN  [i \in 1..(len - start) |-> buf[start + i]]

\* The tail lengths read_output is called with.
ReadTails == {0, 1, 3, OUTPUT_BUFFER_CAPACITY, OUTPUT_BUFFER_CAPACITY + 1}

\* lines.next_line().await returns a line of the reader's pipe.
ReaderNextLine ==
    /\ \E s \in Sources :
          /\ ~outbuf.pend[s]
          /\ outbuf.left > 0
          /\ outbuf' = [outbuf EXCEPT !.pend[s] = TRUE, !.left = @ - 1]
    /\ OutFrame

\* The reader locks the buffer, evicts and appends, and unlocks.
ReaderAppend ==
    /\ \E s \in Sources :
          /\ outbuf.pend[s]
          /\ outbuf' = [outbuf EXCEPT
                          !.buf = push_line(@, Line(s, outbuf.arrived + 1)),
                          !.arrived = @ + 1,
                          !.pend[s] = FALSE]
    /\ OutFrame

\* The agent calls read_output on the entry.
ReadOutput ==
    /\ \E n \in ReadTails :
          outbuf' = [outbuf EXCEPT
                       !.read = [ some |-> TRUE, tail_lines |-> n,
                                  lines |-> read_output(outbuf.buf, n) ]]
    /\ OutFrame

OutNext == ReaderNextLine \/ ReaderAppend \/ ReadOutput

SpecOutput == OutInit /\ [][OutNext]_vars

\* C33: with both readers appending, the buffer never holds more than
\* OUTPUT_BUFFER_CAPACITY lines; it holds the lines that arrived last, in
\* the order of their arrival (so at capacity each new line evicts the
\* oldest one); and read_output(id, n) returns the last min(n, len) lines of
\* the buffer in that order.
C33_BoundedBufferTail ==
    /\ [] /\ Len(outbuf.buf) <= OUTPUT_BUFFER_CAPACITY
          /\ Len(outbuf.buf) = Min(outbuf.arrived, OUTPUT_BUFFER_CAPACITY)
          /\ \A i \in 1..Len(outbuf.buf) :
                outbuf.buf[i].n = outbuf.arrived - Len(outbuf.buf) + i
    /\ [][ outbuf'.read # outbuf.read =>
             LET got == outbuf'.read.lines
                 len == Len(outbuf.buf)
             IN  /\ Len(got) = Min(outbuf'.read.tail_lines, len)
                 /\ \A i \in 1..Len(got) : got[i] = outbuf.buf[len - Len(got) + i]
         ]_vars

\* The buffer is full, lines of both pipes have evicted older ones, and a
\* read of three lines returned a stderr line between stdout lines.
C33_Witness ==
    /\ Len(outbuf.buf) = OUTPUT_BUFFER_CAPACITY
    /\ outbuf.arrived = OUTPUT_BUFFER_CAPACITY + 2
    /\ outbuf.read.some /\ outbuf.read.tail_lines = 3
    /\ Len(outbuf.read.lines) = 3
    /\ outbuf.read.lines[1].src = "stdout"
    /\ outbuf.read.lines[2].src = "stderr"
    /\ outbuf.read.lines[3].n = outbuf.arrived

---------------------------------------------------------------------------
(* register's early returns.                                               *)

\* A step in which register was called: a spawn that had begun is settled.
RegisterReturned ==
    spawning' # spawning /\ spawning' \subseteq spawning

\* C34: a register call that fails (the registry is full, the id is
\* registered, the parent is unknown or the depth is over the limit) leaves
\* the registry as it was: the same entries with the same fields, and no task.
C34_FailedRegisterChangesNothing ==
    [][ (RegisterReturned /\ regLog'.error # "ok") =>
            /\ regLog'.error \in {"max_total", "duplicate", "parent_not_found",
                                  "max_depth"}
            /\ entries' = entries
            /\ tasks' = tasks
            /\ cancelled' = cancelled
      ]_vars

\* register refused an id that is registered, with room left in the
\* registry and a parent that would have been accepted.
C34_Witness ==
    /\ regLog.error = "duplicate"
    /\ Len(entries) = regLog.len_before
    /\ Len(entries) >= 1
    /\ Len(entries) < max_total

---------------------------------------------------------------------------
(* The rate-limited search wrappers.                                       *)

RateFrame ==
    /\ UNCHANGED <<regVars, joinVars, child, execVars, fsVars, usageLog, toolLog,
                   loopVars, stdio, outbuf>>
    /\ UNCHANGED <<ctxVars, histVars, sessVars>>

RateInit ==
    /\ RegIdle
    /\ JoinIdle /\ ChildIdle /\ ExecIdle /\ FsIdle /\ UsageIdle
    /\ toolLog = NoToolLog /\ LoopIdle /\ StdioIdle
    /\ outbuf = NoOutput
    /\ limiter = NewLimiter
    /\ cm = NewContextManager
    /\ evalLog = NewEvalLog
    /\ HistIdle
    /\ SessIdle

\* The first locked block of enforce_rate_limit: the time still to wait,
\* 0 for None (no request yet, or the interval has passed).
remaining_wait(last, now, min_secs) ==
    IF last.some /\ now - last.at < min_secs
      THEN min_secs - (now - last.at)
      ELSE 0

RequestsBegun ==
    Len(limiter.starts["ddg"]) + Len(limiter.starts["brave"])
      + Cardinality({k \in SearchTasks : limiter.t[k].pc # "idle"})

\* A task enters a wrapper: it locks the provider's tracker, computes the
\* remaining wait and unlocks.
RateRead ==
    /\ RequestsBegun < MaxRequests
    /\ \E k \in SearchTasks : \E p \in Providers :
          LET wait == remaining_wait(limiter.last[p], limiter.now,
                                     rate_limit_secs(p))
          IN  /\ limiter.t[k].pc = "idle"
              /\ limiter' = [limiter EXCEPT !.t[k] =
                    [ pc       |-> IF wait > 0 THEN "sleeping" ELSE "update",
                      provider |-> p,
                      wake     |-> limiter.now + wait ]]
    /\ RateFrame

\* tokio::time::sleep(wait) completes, at its deadline or later.
RateWake ==
    /\ \E k \in SearchTasks :
          /\ limiter.t[k].pc = "sleeping"
          /\ limiter.now >= limiter.t[k].wake
          /\ limiter' = [limiter EXCEPT !.t[k].pc = "update"]
    /\ RateFrame

\* The second locked block stores Instant::now(), and the wrapper issues
\* the provider's request.
RateUpdate ==
    /\ \E k \in SearchTasks :
          LET p == limiter.t[k].provider
          IN  /\ limiter.t[k].pc = "update"
              /\ limiter' = [limiter EXCEPT
                    !.last[p]   = Instant(limiter.now),
                    !.starts[p] = Append(@, limiter.now),
                    !.t[k]      = NoSearch]
    /\ RateFrame

\* A second passes.
Tick ==
    /\ limiter.now < MaxClock
    /\ limiter' = [limiter EXCEPT !.now = @ + 1]
    /\ RateFrame

RateNext == RateRead \/ RateWake \/ RateUpdate \/ Tick

SpecRate == RateInit /\ [][RateNext]_vars

\* C35: any two requests to one provider issued through the rate-limited
\* wrappers start at least rate_limit_secs apart, also when several tasks
\* call the provider side by side.
C35_RequestsSpacedApart ==
    \A p \in Providers :
        \A i, j \in 1..Len(limiter.starts[p]) :
            i < j => limiter.starts[p][j] - limiter.starts[p][i]
                        >= rate_limit_secs(p)

---------------------------------------------------------------------------
(* A spawner that fails after register.                                    *)

\* The entry of a spawn whose spawner returned an error after register: no
\* task was started for it.
NoTask == [pc |-> "absent", outcome |-> "none", cancel_seen |-> FALSE]

\* spawn_background_process when Command::spawn (or the capture of stdout
\* or stderr) fails, spawn_llm_sub_agent when the workspace path has no
\* parent directory: register has returned Ok, `?` returns the error, and
\* tokio::spawn is never reached.
SpawnerFailsAfterRegister ==
    \E s \in spawning :
        /\ register_result(entries, Len(entries) + 1, s.parent_id) = "ok"
        /\ spawning' = spawning \ {s}
        /\ regLog' = [ error |-> "ok", len_before |-> Len(entries),
                       depth |-> register_depth(entries, s.parent_id) ]
        /\ entries' = register(entries, Len(entries) + 1, s.parent_id,
                               s.token, s.caller)
        /\ tasks' = Append(tasks, NoTask)
        /\ UNCHANGED <<tokParent, cancelled, cancelCalls, sd, spawnsLeft>>
        /\ UNCHANGED <<ctxVars, histVars, sessVars, extVars>>

SpawnNext == LifeNext \/ SpawnerFailsAfterRegister

SpecSpawn == LifeInit /\ [][SpawnNext]_vars

\* The entries of spawns whose spawner returned an error.
FailedSpawns == {id \in RegIds : tasks[id].pc = "absent"}

\* C36: when a spawner returns an error the registry holds no entry for
\* the attempt (so none that stays Running with no task to update it, and
\* none that counts towards max_total).
C36_FailedSpawnLeavesNoEntry == FailedSpawns = {}

---------------------------------------------------------------------------
(* The registry over its lifetime.                                         *)

\* The registry after two spawns by the root agent whose tasks have ended,
\* one Completed and one Failed.
EndedEntries ==
    LET e1 == <<NewEntry(<<>>, NoId, 1, NoId)>>
        e2 == Append(e1, NewEntry(e1, NoId, 2, NoId))
        r1 == update_status(set_result(e2, 1, result_status("Completed")),
                            1, "Completed")
    IN  update_status(set_result(r1, 2, result_status("Failed")), 2, "Failed")

EndedTask(outcome) ==
    [pc |-> "done", outcome |-> outcome, cancel_seen |-> FALSE]

CountInit ==
    /\ entries = EndedEntries
    /\ tasks = <<EndedTask("Completed"), EndedTask("Failed")>>
    /\ tokParent = <<RootToken, RootToken>> /\ cancelled = {}
    /\ spawning = {}
    /\ regLog = [error |-> "ok", len_before |-> 1, depth |-> 0]
    /\ cancelCalls = {} /\ sd = "idle"
    /\ spawnsLeft = LifeSpawns
    /\ ExtIdle
    /\ cm = NewContextManager
    /\ evalLog = NewEvalLog
    /\ HistIdle
    /\ SessIdle

CountNext == SpawnNext \/ RegisterDuplicate

SpecCount == CountInit /\ [][CountNext]_vars

\* C37: no operation removes an entry: total_count never decreases and
\* every entry stays the entry it was; once max_total entries are
\* registered every register call fails with the count error and adds
\* nothing, whatever the status of the entries.
C37_EntriesNeverRemoved ==
    [][ /\ total_count(entries') >= total_count(entries)
        /\ \A id \in RegIds :
              /\ entries'[id].parent_id = entries[id].parent_id
              /\ entries'[id].cancel_token = entries[id].cancel_token
              /\ entries'[id].depth = entries[id].depth
        /\ (RegisterReturned /\ total_count(entries) >= max_total) =>
              /\ regLog'.error = "max_total"
              /\ entries' = entries
      ]_vars

\* register was refused for the count with every entry terminal.
C37_Witness ==
    /\ total_count(entries) = max_total
    /\ \A id \in RegIds : entries[id].status # "Running"
    /\ \E id \in RegIds : entries[id].status = "Completed"
    /\ regLog.error = "max_total"
    /\ regLog.len_before = max_total
    /\ spawning = {}

---------------------------------------------------------------------------
(* A task publishes its result before its status.                          *)

\* C38: an entry whose status is Completed or Failed has a stored result,
\* the one of that outcome: the task that sets these statuses has called
\* set_result before.
C38_EndedHasResult ==
    /\ [] \A id \in RegIds :
             entries[id].status \in {"Completed", "Failed"} =>
                 /\ entries[id].result # "none"
                 /\ entries[id].result = result_status(entries[id].status)
    /\ [][ \A id \in RegIds :
             ( /\ entries'[id].status \in {"Completed", "Failed"}
               /\ entries'[id].status # entries[id].status ) =>
                   /\ entries[id].result # "none"
                   /\ entries'[id].result = entries[id].result
         ]_vars

\* A task ended Failed after kill_agent had marked its entry Killed, and
\* another entry is still Running.
C38_Witness ==
    \E id \in RegIds :
        /\ entries[id].status = "Failed"
        /\ entries[id].result = "failed"
        /\ id \in cancelCalls
        /\ \E other \in RegIds : entries[other].status = "Running"

---------------------------------------------------------------------------
(* Overlapping writes to one entry's stdin.                                *)

\* The calls that hold the handle of entry id.
HoldersOf(id) == {k \in Writers : stdio.w[k].pc = "writing" /\ stdio.w[k].id = id}

\* The pieces of each call lie together in its entry's pipe: no call has
\* written a piece after another call's piece that followed one of its own.
NotInterleaved == ~stdio.mixed

\* C39: of the write_to_stdin calls to one entry at most one holds the
\* handle at any moment, and the handle is in the entry exactly when no
\* call holds it (neither duplicated nor lost); a call that finds it taken
\* returns the "No stdin handle available" error and writes nothing; and
\* the pieces of two writes are never interleaved in the pipe.
C39_OneWriterAtATime ==
    /\ [] \A id \in StdinIds :
             /\ Cardinality(HoldersOf(id)) <= 1
             /\ stdio.handle[id] = "taken" <=> HoldersOf(id) # {}
             /\ stdio.handle[id] # "none" =>
                   (stdio.handle[id] = "stored" <=> HoldersOf(id) = {})
             /\ NotInterleaved
             /\ \A k \in Writers :
                   stdio.w[k].result = "no_handle" => ~stdio.w[k].sent
    /\ [][ \A k \in Writers : \A id \in StdinIds :
             ( /\ stdio.w[k].pc = "idle" /\ stdio'.w[k].pc # "idle"
               /\ stdio'.w[k].id = id
               /\ stdio.handle[id] = "taken" ) =>
                   /\ stdio'.w[k].pc = "returned"
                   /\ stdio'.w[k].result = "no_handle"
                   /\ stdio'.handle = stdio.handle
                   /\ stdio'.mixed = stdio.mixed
                   /\ \A j \in Writers \ {k} : stdio'.w[j] = stdio.w[j]
         ]_vars

\* A call to entry 1 found the handle taken by a call that has written a
\* piece and is still writing, after an earlier call.
C39_Witness ==
    \E k, h \in Writers :
        /\ stdio.w[k].pc = "returned" /\ stdio.w[k].result = "no_handle"
        /\ stdio.w[k].id = 1
        /\ stdio.w[h].pc = "writing" /\ stdio.w[h].id = 1
        /\ stdio.w[h].sent /\ stdio.w[h].tail
        /\ stdio.calls = MaxStdinWrites

---------------------------------------------------------------------------
(* What a masking round reclaims.                                          *)

\* pct_before - pct_after of the Mask arm, in tokens and cut off at 0 as
\* reclaimed_pct.max(0.0) is: the notification's figure is this number as a
\* percentage of the context limit.
reclaimed_tokens(before, after) ==
    IF usage_tokens(before) > usage_tokens(after)
      THEN usage_tokens(before) - usage_tokens(after)
      ELSE 0

\* The session's between-turn step ran a masking round.
MaskedBetweenTurns ==
    pc = "between" /\ pc' = "top" /\ maskLog' # maskLog

\* C40: a masking round changes neither prompt_tokens nor total_chars, so
\* the usage is the same before and after it and the reclaimed figure of
\* the mask notification is 0; and within a session total_chars never
\* shrinks, so the usage of character-fallback mode never decreases.
C40_MaskingReclaimsNothing ==
    [][ /\ MaskedBetweenTurns =>
              /\ cm'.prompt_tokens = cm.prompt_tokens
              /\ cm'.total_chars = cm.total_chars
              /\ usage_tokens(cm') = usage_tokens(cm)
              /\ reclaimed_tokens(cm, cm') = 0
        /\ session'.number = session.number =>
              /\ cm'.total_chars >= cm.total_chars
              /\ (cm.prompt_tokens = 0 /\ cm'.prompt_tokens = 0) =>
                     usage_tokens(cm') >= usage_tokens(cm)
      ]_vars

\* A round in character-fallback mode has replaced a tool-response and
\* appended its notification.
C40_Witness ==
    /\ pc = "top"
    /\ maskLog.rounds > 0
    /\ maskLog.masked_now > 0
    /\ cm.prompt_tokens = 0
    /\ cm.masked_count > 0
    /\ messages[Len(messages)] = MaskNotice

=============================================================================
